---- MODULE Spec2Model ----
(***************************************************************************)
(* A model of fastNLP's ELMo encoder (fastNLP/modules/encoder/_elmo.py).   *)
(*                                                                         *)
(* Tensors are functions over 0-based index ranges, as in the source.      *)
(* Feature dimensions are 1 wide per gate block unless stated otherwise,   *)
(* and tensor elements are integers: torch.sigmoid is taken on the integer *)
(* grid as the step to {0, 1} and torch.tanh as the saturation to          *)
(* [-1, 1], so that gates, memory growth, clamping and dropout scaling     *)
(* keep their ranges and their order of application.                       *)
(***************************************************************************)
EXTENDS Integers, Sequences, FiniteSets, TLC

\* ------------------------------------------------------------------------
\* Bounds of the model
\* ------------------------------------------------------------------------
MaxBatch == 2
MaxTime == 2
MaxBiLmBatch == 3
MaxBiLmTime == 2
MaxLayers == 2
MaxCellSize == 2
MaxProjDim == 2
MaxLoads == 2
MaxFiles == 3
MaxFilters == 2
MaxHighway == 1
MaxWordLen == 2
MaxChars == 7
MaxWordSize == 645
MaxEpochs == 2
MaxTrainBatches == 2
MaxAccuracy == 2

\* ------------------------------------------------------------------------
\* Python and torch helpers
\* ------------------------------------------------------------------------
\* None is the empty tuple; an Optional[float] is None or Float(x), a
\* one-element tuple; a Python tuple of tensors is a tuple of functions.
None == <<>>

Float(x) == <<x>>

Val(v) == v[1]

\* Python truthiness of an Optional[float], as used by `if self.x_clip_value:`
Truthy(v) == v # None /\ Val(v) # 0

Min(a, b) == IF a < b THEN a ELSE b

Max(a, b) == IF a > b THEN a ELSE b

\* torch.sigmoid on the integer grid
Sigmoid(x) == IF x > 0 THEN 1 ELSE 0

\* torch.tanh on the integer grid
Tanh(x) == IF x > 1 THEN 1 ELSE IF x < -1 THEN -1 ELSE x

ClampNoLowerBound(x, lo, hi) == Min(x, hi)

\* torch.clamp(x, lo, hi) = min(max(x, lo), hi)
Clamp(x, lo, hi) == Min(Max(x, lo), hi)

\* Python's seq[i] for a tensor or list of n elements held as a function on
\* 0..n-1: a negative i counts from the end; outside -n..n-1 it raises.
PyInRange(n, i) == -n <= i /\ i < n

PyGet(seq, n, i) == IF i < 0 THEN seq[n + i] ELSE seq[i]

\* Python's stop bound of seq[0:stop] for a sequence of n elements
PySliceStop(n, stop) == IF stop < 0 THEN Max(n + stop, 0) ELSE Min(stop, n)

\* ------------------------------------------------------------------------
\* LstmCellWithProjection
\* ------------------------------------------------------------------------
\* State of a cell and of a call of its forward
VARIABLES
    go_forward,                     \* self.go_forward
    memory_cell_clip_value,         \* self.memory_cell_clip_value
    state_projection_clip_value,    \* self.state_projection_clip_value
    recurrent_dropout_probability,  \* self.recurrent_dropout_probability, in percent
    training,                       \* self.training
    weights,                        \* input_linearity, state_linearity, state_projection
    inputs,                         \* the inputs argument
    batch_size,                     \* inputs.size()[0]
    total_timesteps,                \* inputs.size()[1]
    batch_lengths,                  \* the batch_lengths argument
    initial_state,                  \* the initial_state argument, or None
    cell_pc,                        \* position in forward: start, loop, done, IndexError
    timestep,                       \* the loop variable of forward
    index,                          \* the position visited by the last iteration
    current_length_index,
    dropout_mask,
    full_batch_previous_state,
    full_batch_previous_memory,
    output_accumulator,
    memory,                         \* the memory slice of the last iteration
    timestep_output,                \* the output slice of the last iteration
    final_state,                    \* the returned final state
    mask_calls,                     \* history: number of get_dropout_mask calls
    mask_log                        \* history: per iteration, the mask slice multiplied in

cellVars == <<go_forward, memory_cell_clip_value, state_projection_clip_value,
              recurrent_dropout_probability, training, weights, inputs,
              batch_size, total_timesteps, batch_lengths, initial_state, cell_pc, timestep,
              index, current_length_index, dropout_mask,
              full_batch_previous_state, full_batch_previous_memory,
              output_accumulator, memory, timestep_output, final_state,
              mask_calls, mask_log>>

\* State of ElmobiLm and of a call of its forward or _lstm_forward. The module
\* is in evaluation mode (self.training false), so its cells obtain no
\* dropout mask.
VARIABLES
    bilm_entry,                 \* the method called: "forward" or "_lstm_forward"
    num_layers,                 \* len(self.forward_layers)
    cell_clip,                  \* config['encoder']['cell_clip']
    proj_clip,                  \* config['encoder']['proj_clip']
    forward_weights,            \* parameters of the forward cells
    backward_weights,           \* parameters of the backward cells
    bilm_inputs,                \* forward's inputs argument
    seq_len,                    \* forward's seq_len argument
    sort_idx,
    sorted_inputs,              \* inputs[sort_idx]
    packed,                     \* the PackedSequence handed to _lstm_forward
    lstm_initial_state,         \* _lstm_forward's initial_state argument
    hidden_states,
    padded_inputs,              \* inputs after pad_packed_sequence
    lstm_batch_lengths,         \* batch_lengths after pad_packed_sequence
    layer_index,
    forward_output_sequence,
    backward_output_sequence,
    sequence_outputs,
    final_states,
    stacked_sequence_outputs,
    unsort_idx,
    bilm_output,                \* what forward returns
    bilm_pc,
    cell_runs,                  \* history: number of cell calls made
    layer_inputs,               \* history: per layer, the two cells' inputs
    cell_outputs                \* history: per layer, the two cells' outputs

bilmVars == <<bilm_entry, num_layers, cell_clip, proj_clip, forward_weights,
              backward_weights, bilm_inputs, seq_len, sort_idx, sorted_inputs,
              packed, lstm_initial_state, hidden_states, padded_inputs,
              lstm_batch_lengths, layer_index, forward_output_sequence,
              backward_output_sequence, sequence_outputs, final_states,
              stacked_sequence_outputs, unsort_idx, bilm_output, bilm_pc,
              cell_runs, layer_inputs, cell_outputs>>

\* ElmobiLm's parameters and load_weights
VARIABLES
    encoder,                    \* the ElmobiLm's sizes (lines 279-282), or None
    layers,                     \* <<i_layer, j_direction>> -> the cell's parameters
    h5_rnn,                     \* the weight file's RNN_<j>/.../Cell<i>/LSTMCell datasets
    fin,                        \* the open h5py.File, or None
    i_layer,
    j_direction,
    load_pc,
    load_calls                  \* history: number of load_weights calls

loadVars == <<encoder, layers, h5_rnn, fin, i_layer, j_direction, load_pc,
              load_calls>>

\* _ElmoModel.__init__
VARIABLES
    dir,                        \* the file names os.walk has yet to yield
    config_count,
    weight_count,
    vocab,                      \* constructor argument
    cache_word_reprs,           \* constructor argument
    config,                     \* the parsed configuration file
    char_emb_layer,             \* the local of lines 771-815
    attributes,                 \* names of the attributes set on self
    parameters,                 \* the nn.Parameters created so far
    filter_index,               \* i of _load_cnn_weights
    highway_index,              \* k of _load_highway
    config_file,                \* the local of line 724
    weight_file,                \* the local of line 727
    model_pc

modelVars == <<dir, config_count, weight_count, vocab, cache_word_reprs, config,
               char_emb_layer, attributes, parameters, filter_index,
               highway_index, config_file, weight_file, model_pc>>

\* A call of _ElmoModel.forward on a constructed model
VARIABLES
    elmo,                       \* self: the configuration and attributes it holds
    words,                      \* forward's argument, batch_size x max_len
    expanded_words,
    forward_seq_len,            \* the local seq_len of lines 875 and 879
    token_embedding,
    encoder_output,
    token_path,                 \* history: the attribute that embedded the tokens
    forward_pc

forwardVars == <<elmo, words, expanded_words, forward_seq_len, token_embedding,
                 encoder_output, token_path, forward_pc>>

\* The character block of _ElmoModel.__init__ (lines 747-813) in detail. A
\* str is the tuple of its characters.
VARIABLES
    word_list,                  \* list(iter(vocab)): the word at each index
    char_dic,               \* char.dic: token -> row of the checkpoint
    max_chars,
    char_vocab,                 \* the token at each index, or None
    char_emb_weight,            \* char_emb_layer.weight.data, by row
    found_char_count,
    words_to_chars_embedding,
    chars_index,                \* iterations done by the loop in progress
    chars_pc

charVars == <<word_list, char_dic, max_chars, char_vocab, char_emb_weight,
              found_char_count, words_to_chars_embedding, chars_index, chars_pc>>

\* The precomputation of the cached word representations (lines 843-862)
VARIABLES
    word_size,
    num_batches,
    cache_i,                    \* the loop variable i of line 853
    cached_rows,                \* history: index -> times line 859 wrote its row
    cache_pc

cacheVars == <<word_size, num_batches, cache_i, cached_rows, cache_pc>>

\* State of a trainer and of a call of its train
VARIABLES
    trainer_class,      \* the class of self
    n_epochs,           \* self.n_epochs
    validate,           \* self.validate
    save_best_dev,      \* self.save_best_dev
    network_has_loss,   \* hasattr(network, "loss")
    batches_per_epoch,  \* the number of batches make_batch yields in an epoch
    epochs_started,     \* the number of values the epoch loop has taken
    epoch,              \* the loop variable of line 90
    step,               \* the batch counter of lines 97, 111
    batch_x,            \* the batch of line 98
    self_mask,          \* self.mask of SeqLabelTrainer
    loss_func,          \* self.loss_func
    best_accuracy,      \* self.best_accuracy
    accuracy,           \* the accuracy of the validator's last run
    accuracies,         \* history: the accuracies best_eval_result was called with
    best_result,        \* what best_eval_result returned in this epoch
    saved_epoch,        \* history: the epoch of the last save_model, 0 for none
    network_mode,       \* the mode of the network: unset, train, test
    network_calls,      \* history: number of calls network(x)
    call_count,         \* history: number of calls of each method
    last_call,          \* history: the last method called
    train_pc            \* position in train

trainVars == <<trainer_class, n_epochs, validate, save_best_dev, network_has_loss,
               batches_per_epoch, epochs_started, epoch, step, batch_x, self_mask,
               loss_func, best_accuracy, accuracy, accuracies, best_result,
               saved_epoch, network_mode, network_calls, call_count, last_call,
               train_pc>>

\* Which tensors share memory. A storage is an index into heap; its content is
\* the number of in-place writes it has received: a view (squeeze, split,
\* unsqueeze, .data, a plain assignment) is the same storage, a clone, a
\* concatenation and a new tensor are a new one.
VARIABLES
    heap,                 \* per storage, the in-place writes received
    lstm_layers,          \* len(self.forward_layers)
    lstm_timesteps,       \* the number of timesteps of the padded inputs
    state_supplied,       \* whether the caller passes an initial_state
    refs,                 \* the storage of each local of the two functions
    cell_args,            \* the storages and contents of the arguments of the
                          \* cell call in progress, as they were on entry
    recorded,             \* per entry of sequence_outputs, storage and content
    storage_direction,    \* the cell in progress: forward or backward
    storage_layer_index,  \* layer_index of _lstm_forward
    storage_timestep,     \* timestep of the cell call in progress
    storage_pc            \* position in _lstm_forward

storageVars == <<heap, lstm_layers, lstm_timesteps, state_supplied, refs,
                 cell_args, recorded, storage_direction, storage_layer_index,
                 storage_timestep, storage_pc>>

otherThanTrainVars == <<cellVars, bilmVars, loadVars, modelVars, forwardVars, charVars,
                        cacheVars, storageVars>>

otherThanStorageVars == <<cellVars, bilmVars, loadVars, modelVars, forwardVars,
                          charVars, cacheVars, trainVars>>

otherThanCellVars == <<bilmVars, loadVars, modelVars, forwardVars, charVars, cacheVars,
                       trainVars, storageVars>>

otherThanBiLmVars == <<cellVars, loadVars, modelVars, forwardVars, charVars, cacheVars,
                       trainVars, storageVars>>

otherThanLoadVars == <<cellVars, bilmVars, modelVars, forwardVars, charVars, cacheVars,
                       trainVars, storageVars>>

otherThanModelVars == <<cellVars, bilmVars, forwardVars, charVars, cacheVars,
                        trainVars, storageVars>>

\* Input tensors of B rows and T timesteps (one feature per position)
InputTensors(B, T) ==
    { [i \in 0..B-1 |-> [t \in 0..T-1 |-> 1]],
      [i \in 0..B-1 |-> [t \in 0..T-1 |-> IF (i + t) % 2 = 0 THEN 1 ELSE -1]] }

\* Clip magnitudes a cell is configured with (None: not configured)
ClipValues == {None, Float(0), Float(1)}

\* Recurrent dropout probabilities, in percent
DropoutValues == {0, 50}

\* Parameters of a cell: per gate block (input, forget, memory, output) the
\* input weight, the state weight and the bias, and the projection weight.
CellWeights ==
    { [input_linearity |-> <<1, 1, 1, 1>>, state_linearity |-> <<0, 0, 0, 0>>,
       bias |-> <<0, 1, 0, 1>>, state_projection |-> 2],
      [input_linearity |-> <<1, 1, 1, 1>>, state_linearity |-> <<0, 1, 0, 1>>,
       bias |-> <<2, 1, 0, 1>>, state_projection |-> -2] }

\* batch_lengths lists ordered from longest to shortest, entries in 0..T
SortedLengths(B, T) ==
    { l \in [0..B-1 -> 0..T] : \A i \in 0..B-2 : l[i] >= l[i+1] }

\* A supplied initial state (state, memory), one row per batch element
InitialStates(B) ==
    { <<[i \in 0..B-1 |-> 1 + i], [i \in 0..B-1 |-> 2 + i]>> }

\* get_dropout_mask(p, tensor): one entry per element of the tensor, each 0 or
\* the scale 1/(1-p)
get_dropout_mask(p, B) == [0..B-1 -> {0, 100 \div (100 - p)}]

\* The forward pointer loop with `<` in place of `<=`
RECURSIVE ForwardPointerStrict(_, _, _, _)
ForwardPointerStrict(lengths, B, cli, idx) ==
    IF ~PyInRange(B, cli) THEN cli
    ELSE IF PyGet(lengths, B, cli) < idx
         THEN ForwardPointerStrict(lengths, B, cli - 1, idx)
         ELSE cli

\* Lines 164-166: the pointer into the batch for position idx. The result is
\* outside -B..B-1 when the loop indexes batch_lengths out of range, which
\* raises IndexError.
RECURSIVE ForwardPointer(_, _, _, _)
ForwardPointer(lengths, B, cli, idx) ==
    IF ~PyInRange(B, cli) THEN cli
    ELSE IF PyGet(lengths, B, cli) <= idx
         THEN ForwardPointer(lengths, B, cli - 1, idx)
         ELSE cli

\* The backward pointer loop with `>=` in place of `>`
RECURSIVE BackwardPointerInclusive(_, _, _, _)
BackwardPointerInclusive(lengths, B, cli, idx) ==
    IF cli < B - 1 /\ PyGet(lengths, B, cli + 1) >= idx
    THEN BackwardPointerInclusive(lengths, B, cli + 1, idx)
    ELSE cli

\* Lines 168-174
RECURSIVE BackwardPointer(_, _, _, _)
BackwardPointer(lengths, B, cli, idx) ==
    IF cli < B - 1 /\ PyGet(lengths, B, cli + 1) > idx
    THEN BackwardPointer(lengths, B, cli + 1, idx)
    ELSE cli

Pointer(forward, lengths, B, cli, idx) ==
    IF forward THEN ForwardPointer(lengths, B, cli, idx)
    ELSE BackwardPointer(lengths, B, cli, idx)

\* Line 153
PositionOf(forward, T, t) == IF forward THEN t ELSE T - t - 1

\* Lines 206-208
ClipMemory(m, clip) == IF Truthy(clip) THEN Clamp(m, -Val(clip), Val(clip)) ELSE m

\* Lines 215-219
ClipOutput(o, clip) == IF Truthy(clip) THEN Clamp(o, -Val(clip), Val(clip)) ELSE o

\* Lines 187-200: the memory of one row before clipping
GateMemory(w, x, h, m) ==
    LET pre(k) == w.input_linearity[k] * x + w.state_linearity[k] * h + w.bias[k]
        input_gate == Sigmoid(pre(1))
        forget_gate == Sigmoid(pre(2))
        memory_init == Tanh(pre(3))
    IN input_gate * memory_init + forget_gate * m

\* Lines 198-214: the projected output of one row before clipping
ProjectOutput(w, x, h, mem) ==
    LET output_gate == Sigmoid(w.input_linearity[4] * x + w.state_linearity[4] * h
                               + w.bias[4])
    IN w.state_projection * (output_gate * Tanh(mem))

\* Line 223: dropout_mask[0: current_length_index + 1]
MaskSlice(mask, n) == IF mask = None THEN None ELSE [i \in 0..n-1 |-> mask[i]]

ApplyDropoutNever(o, mask, i) == o

\* Lines 222-223
ApplyDropout(o, mask, i) == IF mask = None THEN o ELSE o * mask[i]

\* Lines 176-223 for the active rows 0..n-1: the slice's memory and output
SliceMemory(w, clip, n, x, h, m) ==
    [i \in 0..n-1 |-> ClipMemory(GateMemory(w, x[i], h[i], m[i]), clip)]

SliceOutput(w, clip, mask, n, x, h, mem) ==
    [i \in 0..n-1 |->
        ApplyDropout(ClipOutput(ProjectOutput(w, x[i], h[i], mem[i]), clip),
                     MaskSlice(mask, n), i)]

\* Lines 230-232: tensor[0:n] = slice
WriteRows(buffer, n, slice) ==
    [i \in DOMAIN buffer |-> IF i < n THEN slice[i] ELSE buffer[i]]

WriteColumn(acc, n, idx, slice) ==
    [i \in DOMAIN acc |->
        IF i < n THEN [acc[i] EXCEPT ![idx] = slice[i]] ELSE acc[i]]

\* Lines 132-144: the buffers and the pointer before the first iteration
LoopStart(forward, B, T, init) ==
    [current_length_index |-> IF forward THEN B - 1 ELSE 0,
     state |-> IF init = None THEN [i \in 0..B-1 |-> 0] ELSE init[1],
     memory |-> IF init = None THEN [i \in 0..B-1 |-> 0] ELSE init[2],
     output_accumulator |-> [i \in 0..B-1 |-> [t \in 0..T-1 |-> 0]],
     raised |-> FALSE, index |-> None, memory_slice |-> None, output_slice |-> None,
     mask_slice |-> None]

\* Lines 152-232: iteration t of the loop, from the loop state s
Iteration(forward, w, mclip, pclip, mask, x, lengths, B, T, t, s) ==
    LET idx == PositionOf(forward, T, t)
        cli == Pointer(forward, lengths, B, s.current_length_index, idx)
        n == PySliceStop(B, cli + 1)
        timestep_input == [i \in 0..n-1 |-> x[i][idx]]
        mem == SliceMemory(w, mclip, n, timestep_input, s.state, s.memory)
        out == SliceOutput(w, pclip, mask, n, timestep_input, s.state, mem)
    IN IF ~PyInRange(B, cli)
       THEN [s EXCEPT !.raised = TRUE]
       ELSE [current_length_index |-> cli,
             state |-> WriteRows(s.state, n, out),
             memory |-> WriteRows(s.memory, n, mem),
             output_accumulator |-> WriteColumn(s.output_accumulator, n, idx, out),
             raised |-> FALSE, index |-> idx,
             memory_slice |-> mem, output_slice |-> out,
             mask_slice |-> MaskSlice(mask, n)]

\* The module as constructed and the arguments of one call of forward
CellInit ==
    /\ go_forward \in BOOLEAN
    /\ memory_cell_clip_value \in ClipValues
    /\ state_projection_clip_value \in ClipValues
    /\ recurrent_dropout_probability \in DropoutValues
    /\ training \in BOOLEAN
    /\ weights \in CellWeights
    /\ batch_size \in 1..MaxBatch
    /\ total_timesteps \in 0..MaxTime
    /\ inputs \in InputTensors(batch_size, total_timesteps)
    /\ batch_lengths \in SortedLengths(batch_size, total_timesteps)
    /\ initial_state \in {None} \cup InitialStates(batch_size)
    /\ cell_pc = "start"
    /\ timestep = 0
    /\ index = None
    /\ current_length_index = None
    /\ dropout_mask = None
    /\ full_batch_previous_state = None
    /\ full_batch_previous_memory = None
    /\ output_accumulator = None
    /\ memory = None
    /\ timestep_output = None
    /\ final_state = None
    /\ mask_calls = 0
    /\ mask_log = <<>>

\* Lines 127-149
CellEnter ==
    /\ cell_pc = "start"
    /\ \E s \in {LoopStart(go_forward, batch_size, total_timesteps, initial_state)} :
          /\ output_accumulator' = s.output_accumulator
          /\ full_batch_previous_state' = s.state
          /\ full_batch_previous_memory' = s.memory
          /\ current_length_index' = s.current_length_index
    /\ IF recurrent_dropout_probability > 0 /\ training
       THEN /\ dropout_mask' \in
                 get_dropout_mask(recurrent_dropout_probability, batch_size)
            /\ mask_calls' = mask_calls + 1
       ELSE /\ dropout_mask' = None
            /\ UNCHANGED mask_calls
    /\ cell_pc' = "loop"
    /\ UNCHANGED <<go_forward, memory_cell_clip_value, state_projection_clip_value,
                   recurrent_dropout_probability, training, weights, inputs,
                   batch_size, total_timesteps, batch_lengths, initial_state,
                   timestep, index, memory, timestep_output, final_state, mask_log>>
    /\ UNCHANGED otherThanCellVars

\* Lines 151-232: one iteration of the loop over the timesteps
CellTimestep ==
    /\ cell_pc = "loop"
    /\ timestep < total_timesteps
    /\ LET s == [current_length_index |-> current_length_index,
                 state |-> full_batch_previous_state,
                 memory |-> full_batch_previous_memory,
                 output_accumulator |-> output_accumulator,
                 raised |-> FALSE, index |-> index,
                 memory_slice |-> memory, output_slice |-> timestep_output,
                 mask_slice |-> None]
       IN \E r \in {Iteration(go_forward, weights, memory_cell_clip_value,
                              state_projection_clip_value, dropout_mask, inputs,
                              batch_lengths, batch_size, total_timesteps,
                              timestep, s)} :
          IF r.raised
          THEN /\ cell_pc' = "IndexError"
               /\ UNCHANGED <<timestep, index, current_length_index,
                              full_batch_previous_state, full_batch_previous_memory,
                              output_accumulator, memory, timestep_output, mask_log>>
          ELSE /\ index' = r.index
               /\ current_length_index' = r.current_length_index
               /\ memory' = r.memory_slice
               /\ timestep_output' = r.output_slice
               /\ full_batch_previous_memory' = r.memory
               /\ full_batch_previous_state' = r.state
               /\ output_accumulator' = r.output_accumulator
               /\ mask_log' = Append(mask_log, r.mask_slice)
               /\ timestep' = timestep + 1
               /\ cell_pc' = "loop"
    /\ UNCHANGED <<go_forward, memory_cell_clip_value, state_projection_clip_value,
                   recurrent_dropout_probability, training, weights, inputs,
                   batch_size, total_timesteps, batch_lengths, initial_state,
                   dropout_mask, final_state, mask_calls>>
    /\ UNCHANGED otherThanCellVars

\* Lines 234-240
CellReturn ==
    /\ cell_pc = "loop"
    /\ timestep = total_timesteps
    /\ final_state' = <<full_batch_previous_state, full_batch_previous_memory>>
    /\ cell_pc' = "done"
    /\ UNCHANGED <<go_forward, memory_cell_clip_value, state_projection_clip_value,
                   recurrent_dropout_probability, training, weights, inputs,
                   batch_size, total_timesteps, batch_lengths, initial_state,
                   timestep, index, current_length_index, dropout_mask,
                   full_batch_previous_state, full_batch_previous_memory,
                   output_accumulator, memory, timestep_output, mask_calls,
                   mask_log>>
    /\ UNCHANGED otherThanCellVars

\* The one element of a one-element set: The({ e(x) : x \in {v} }) is e(v)
\* with v computed once
The(S) == CHOOSE v \in S : TRUE

\* Lines 151-232: the iterations t, t+1, ... of the loop, from the loop state s
RECURSIVE CellLoop(_, _, _, _, _, _, _, _, _, _, _)
CellLoop(forward, w, mclip, pclip, mask, x, lengths, B, T, t, s) ==
    IF t >= T \/ s.raised THEN s
    ELSE The({ CellLoop(forward, w, mclip, pclip, mask, x, lengths, B, T, t + 1, next) :
                  next \in { Iteration(forward, w, mclip, pclip, mask, x, lengths,
                                       B, T, t, s) } })

\* Lines 127-240: a whole call of forward under the mask `mask`
RunCell(forward, w, mclip, pclip, mask, x, lengths, B, T, init) ==
    CellLoop(forward, w, mclip, pclip, mask, x, lengths, B, T, 0,
             LoopStart(forward, B, T, init))

\* ------------------------------------------------------------------------
\* ElmobiLm: forward and _lstm_forward
\* ------------------------------------------------------------------------
Rows(tensor) == Cardinality(DOMAIN tensor)

MaxOf(f) == CHOOSE m \in {f[i] : i \in DOMAIN f} : \A i \in DOMAIN f : f[i] <= m

Permutations0(B) ==
    { p \in [0..B-1 -> 0..B-1] : \A i, j \in 0..B-1 : p[i] = p[j] => i = j }

\* torch.sort(values, descending=True): the index results a sort may return
\* (the order among equal values is not specified)
SortDescending(values) ==
    { p \in Permutations0(Rows(values)) :
        \A j \in 0..Rows(values)-2 : values[p[j]] >= values[p[j+1]] }

\* torch.sort(values, descending=False)[1] for distinct values: position r
\* holds the index of the value that has r smaller values
ArgSortAscending(values) ==
    [r \in DOMAIN values |->
        CHOOSE j \in DOMAIN values :
            Cardinality({k \in DOMAIN values : values[k] < values[j]}) = r]

\* tensor[idx] on the batch axis
IndexRows(tensor, idx) == [j \in DOMAIN idx |-> tensor[idx[j]]]

\* pack_padded_sequence(inputs, lengths, batch_first=True): per row, the data
\* of its first lengths[i] positions
Pack(x, lengths) ==
    [data |-> [i \in DOMAIN x |-> [t \in 0..lengths[i]-1 |-> x[i][t]]],
     lengths |-> lengths]

\* pad_packed_sequence(packed, batch_first=True): zero-padded to the longest
PadPacked(pk) ==
    [i \in DOMAIN pk.data |->
        [t \in 0..MaxOf(pk.lengths)-1 |->
            IF t < pk.lengths[i] THEN pk.data[i][t] ELSE 0]]

\* a + b on tensors of shape (batch, time)
AddTensors(a, b) == [i \in DOMAIN a |-> [t \in DOMAIN a[i] |-> a[i][t] + b[i][t]]]

\* torch.cat([a, b], -1) for one feature each: the feature axis has two entries
CatFeatures(a, b) == [i \in DOMAIN a |-> [t \in DOMAIN a[i] |-> <<a[i][t], b[i][t]>>]]

\* torch.cat([a, b], -1) on (batch,)-shaped states
CatStates(a, b) == [i \in DOMAIN a |-> <<a[i], b[i]>>]

\* tensor.split(size, 2)[d] on a (batch, 2)-shaped state: one direction's half
SplitHalf(st, d) == [i \in DOMAIN st |-> st[i][d]]

\* Lines 375-382: the (forward, backward) initial states of one layer
DirectionState(state, d) ==
    IF state = None THEN None
    ELSE <<SplitHalf(state[1], d), SplitHalf(state[2], d)>>

SkipAlways(idx, out, cache) == AddTensors(out, cache)

\* Lines 391-393
SkipConnection(idx, out, cache) ==
    IF idx # 0 THEN AddTensors(out, cache) ELSE out

\* Lines 369-400: one layer, from the two directions' inputs
Layer(idx, fw, bw, mclip, pclip, fwd_in, bwd_in, lengths, state) ==
    LET B == Rows(fwd_in)
        T == MaxOf(lengths)
    IN The({ The({ [forward_cell |-> f.output_accumulator,
                    backward_cell |-> b.output_accumulator,
                    forward_output_sequence |-> fout,
                    backward_output_sequence |-> bout,
                    sequence_output |-> CatFeatures(fout, bout),
                    final_state |-> <<CatStates(f.state, b.state),
                                      CatStates(f.memory, b.memory)>>] :
                   fout \in { SkipConnection(idx, f.output_accumulator, fwd_in) },
                   bout \in { SkipConnection(idx, b.output_accumulator, bwd_in) } }) :
             f \in { RunCell(TRUE, fw, mclip, pclip, None, fwd_in, lengths, B, T,
                             DirectionState(state, 1)) },
             b \in { RunCell(FALSE, bw, mclip, pclip, None, bwd_in, lengths, B, T,
                             DirectionState(state, 2)) } })

\* Lines 368-402: the layers k..n-1 without initial states, appended to done
RECURSIVE LayersFrom(_, _, _, _, _, _, _, _, _, _)
LayersFrom(k, n, fw, bw, mclip, pclip, fwd_in, bwd_in, lengths, done) ==
    IF k >= n THEN done
    ELSE The({ LayersFrom(k + 1, n, fw, bw, mclip, pclip, r.forward_output_sequence,
                          r.backward_output_sequence, lengths,
                          Append(done, r.sequence_output)) :
                  r \in { Layer(k, fw, bw, mclip, pclip, fwd_in, bwd_in, lengths, None) } })

\* Initial states of n layers for B rows: (state, memory), each (n, B, 2)
LayerStates(n, B) ==
    { << [l \in 0..n-1 |-> [i \in 0..B-1 |-> <<1 + l, -1 - i>>]],
         [l \in 0..n-1 |-> [i \in 0..B-1 |-> <<2, -2 - l>>]] >> }

\* A PackedSequence of B rows: lengths sorted, each at least 1
PackedInputs(B, T) ==
    { Pack(x, l) : x \in InputTensors(B, T),
                   l \in { m \in SortedLengths(B, T) : \A i \in 0..B-1 : m[i] >= 1 } }

\* The parameters of the forward cells (the backward cells hold the others)
ForwardLayerWeights == { w \in CellWeights : w.state_projection > 0 }

\* (cell_clip, proj_clip) settings of an encoder configuration
EncoderClips == { <<None, None>>, <<Float(1), Float(1)>> }

BiLmConfigInit ==
    /\ num_layers \in 1..MaxLayers
    /\ \E c \in EncoderClips : cell_clip = c[1] /\ proj_clip = c[2]
    /\ forward_weights \in ForwardLayerWeights
    /\ backward_weights \in CellWeights \ {forward_weights}

BiLmLocalsInit ==
    /\ sort_idx = None
    /\ sorted_inputs = None
    /\ hidden_states = None
    /\ padded_inputs = None
    /\ lstm_batch_lengths = None
    /\ layer_index = 0
    /\ forward_output_sequence = None
    /\ backward_output_sequence = None
    /\ sequence_outputs = <<>>
    /\ final_states = <<>>
    /\ stacked_sequence_outputs = None
    /\ unsort_idx = None
    /\ bilm_output = None
    /\ cell_runs = 0
    /\ layer_inputs = <<>>
    /\ cell_outputs = <<>>

\* seq_len tensors for B rows of T positions: every row at least one token
\* long, in any order, or the last row empty
SeqLens(B, T) ==
    [0..B-1 -> 1..T] \cup { [i \in 0..B-1 |-> IF i = B - 1 THEN 0 ELSE T] }

\* A call of forward(inputs, seq_len), or of _lstm_forward(inputs, initial_state)
BiLmInit ==
    /\ BiLmConfigInit
    /\ BiLmLocalsInit
    /\ \/ /\ bilm_entry = "forward"
          /\ \E B \in 1..MaxBiLmBatch, T \in 1..MaxBiLmTime :
                /\ bilm_inputs \in InputTensors(B, T)
                /\ seq_len \in SeqLens(B, T)
          /\ packed = None
          /\ lstm_initial_state = None
          /\ bilm_pc = "forward"
       \/ /\ bilm_entry = "_lstm_forward"
          /\ bilm_inputs = None
          /\ seq_len = None
          /\ \E B \in 1..MaxBatch, T \in 1..MaxBiLmTime :
                /\ packed \in PackedInputs(B, T)
                /\ lstm_initial_state \in
                      {None} \cup UNION { LayerStates(n, B) : n \in 1..MaxLayers+1 }
          /\ bilm_pc = "_lstm_forward"

\* Lines 320-324: sort by length, pack, call _lstm_forward(inputs, None).
\* pack_padded_sequence raises for a length that is not positive.
BiLmSortAndPack ==
    /\ bilm_pc = "forward"
    /\ \E p \in SortDescending(seq_len) :
          /\ sort_idx' = p
          /\ sorted_inputs' = IndexRows(bilm_inputs, p)
          /\ IF \E i \in DOMAIN seq_len : seq_len[i] <= 0
             THEN /\ bilm_pc' = "PackError"
                  /\ UNCHANGED packed
             ELSE /\ packed' = Pack(IndexRows(bilm_inputs, p), IndexRows(seq_len, p))
                  /\ bilm_pc' = "_lstm_forward"
    /\ UNCHANGED <<bilm_entry, num_layers, cell_clip, proj_clip, forward_weights,
                   backward_weights, bilm_inputs, seq_len, lstm_initial_state,
                   hidden_states, padded_inputs, lstm_batch_lengths, layer_index,
                   forward_output_sequence, backward_output_sequence,
                   sequence_outputs, final_states, stacked_sequence_outputs,
                   unsort_idx, bilm_output, cell_runs, layer_inputs, cell_outputs>>
    /\ UNCHANGED otherThanBiLmVars

LayerCountMismatchIgnored(init, n) == FALSE

\* Line 356: initial_state[0].size()[0] != len(self.forward_layers)
LayerCountMismatch(init, n) == Rows(init[1]) # n

\* Lines 353-367
LstmForwardEnter ==
    /\ bilm_pc = "_lstm_forward"
    /\ IF lstm_initial_state # None /\ LayerCountMismatch(lstm_initial_state, num_layers)
       THEN /\ bilm_pc' = "Exception"
            /\ UNCHANGED <<hidden_states, padded_inputs, lstm_batch_lengths,
                           forward_output_sequence, backward_output_sequence>>
       ELSE /\ hidden_states' =
                  IF lstm_initial_state = None
                  THEN [l \in 0..num_layers-1 |-> None]
                  ELSE [l \in DOMAIN lstm_initial_state[1] |->
                           <<lstm_initial_state[1][l], lstm_initial_state[2][l]>>]
            /\ padded_inputs' = PadPacked(packed)
            /\ lstm_batch_lengths' = packed.lengths
            /\ forward_output_sequence' = PadPacked(packed)
            /\ backward_output_sequence' = PadPacked(packed)
            /\ bilm_pc' = "layers"
    /\ UNCHANGED <<bilm_entry, num_layers, cell_clip, proj_clip, forward_weights,
                   backward_weights, bilm_inputs, seq_len, sort_idx, sorted_inputs,
                   packed, lstm_initial_state, layer_index, sequence_outputs,
                   final_states, stacked_sequence_outputs, unsort_idx, bilm_output,
                   cell_runs, layer_inputs, cell_outputs>>
    /\ UNCHANGED otherThanBiLmVars

\* Lines 368-400: one iteration of the loop over the layers
LstmForwardLayer ==
    /\ bilm_pc = "layers"
    /\ layer_index < Rows(hidden_states)
    /\ \E r \in {Layer(layer_index, forward_weights, backward_weights, cell_clip,
                       proj_clip, forward_output_sequence, backward_output_sequence,
                       lstm_batch_lengths, hidden_states[layer_index])} :
          /\ forward_output_sequence' = r.forward_output_sequence
          /\ backward_output_sequence' = r.backward_output_sequence
          /\ sequence_outputs' = Append(sequence_outputs, r.sequence_output)
          /\ final_states' = Append(final_states, r.final_state)
          /\ layer_inputs' = Append(layer_inputs,
                <<forward_output_sequence, backward_output_sequence>>)
          /\ cell_outputs' = Append(cell_outputs, <<r.forward_cell, r.backward_cell>>)
    /\ cell_runs' = cell_runs + 2
    /\ layer_index' = layer_index + 1
    /\ UNCHANGED <<bilm_entry, num_layers, cell_clip, proj_clip, forward_weights,
                   backward_weights, bilm_inputs, seq_len, sort_idx, sorted_inputs,
                   packed, lstm_initial_state, hidden_states, padded_inputs,
                   lstm_batch_lengths, stacked_sequence_outputs, unsort_idx,
                   bilm_output, bilm_pc>>
    /\ UNCHANGED otherThanBiLmVars

\* Lines 402-410: torch.stack(sequence_outputs), layers on a new first axis
LstmForwardReturn ==
    /\ bilm_pc = "layers"
    /\ layer_index = Rows(hidden_states)
    /\ stacked_sequence_outputs' =
          [k \in 0..Len(sequence_outputs)-1 |-> sequence_outputs[k + 1]]
    /\ bilm_pc' = IF bilm_entry = "forward" THEN "unsort" ELSE "done"
    /\ UNCHANGED <<bilm_entry, num_layers, cell_clip, proj_clip, forward_weights,
                   backward_weights, bilm_inputs, seq_len, sort_idx, sorted_inputs,
                   packed, lstm_initial_state, hidden_states, padded_inputs,
                   lstm_batch_lengths, layer_index, forward_output_sequence,
                   backward_output_sequence, sequence_outputs, final_states,
                   unsort_idx, bilm_output, cell_runs, layer_inputs, cell_outputs>>
    /\ UNCHANGED otherThanBiLmVars

UnsortIndexAsSortIndex(idx) == idx

\* Line 325
UnsortIndex(idx) == ArgSortAscending(idx)

\* Lines 325-327
BiLmUnsort ==
    /\ bilm_pc = "unsort"
    /\ unsort_idx' = UnsortIndex(sort_idx)
    /\ bilm_output' =
          [k \in DOMAIN stacked_sequence_outputs |->
              IndexRows(stacked_sequence_outputs[k], UnsortIndex(sort_idx))]
    /\ bilm_pc' = "done"
    /\ UNCHANGED <<bilm_entry, num_layers, cell_clip, proj_clip, forward_weights,
                   backward_weights, bilm_inputs, seq_len, sort_idx, sorted_inputs,
                   packed, lstm_initial_state, hidden_states, padded_inputs,
                   lstm_batch_lengths, layer_index, forward_output_sequence,
                   backward_output_sequence, sequence_outputs, final_states,
                   stacked_sequence_outputs, cell_runs, layer_inputs, cell_outputs>>
    /\ UNCHANGED otherThanBiLmVars

\* ------------------------------------------------------------------------
\* ElmobiLm.__init__ and ElmobiLm.load_weights
\* ------------------------------------------------------------------------
\* Matrices are functions row -> column -> element over 0-based ranges.
NumRows(m) == Cardinality(DOMAIN m)

NumCols(m) == Cardinality(DOMAIN m[0])

\* numpy.transpose of a matrix
Transpose(m) == [c \in DOMAIN m[0] |-> [r \in DOMAIN m |-> m[r][c]]]

\* m[:, lo:hi]
ColumnSlice(m, lo, hi) == [r \in DOMAIN m |-> [c \in 0..hi-lo-1 |-> m[r][c + lo]]]

\* m[lo:hi, :] (and v[lo:hi] of a vector)
RowSlice(m, lo, hi) == [r \in 0..hi-lo-1 |-> m[r + lo]]

\* m[lo:lo+len(block), :] = block
AssignRows(m, lo, block) ==
    [r \in DOMAIN m |-> IF r - lo \in DOMAIN block THEN block[r - lo] ELSE m[r]]

\* Lines 446-447 with the source matrix read after the first assignment
\* has already landed in it
SwapGateBlocksInPlace(torch_w, tf_w, cell_size) ==
    LET first == AssignRows(torch_w, 1 * cell_size,
                            RowSlice(torch_w, 2 * cell_size, 3 * cell_size))
    IN AssignRows(first, 2 * cell_size,
                  RowSlice(first, 1 * cell_size, 2 * cell_size))

\* Lines 446-447: torch_w is a view of the copy, tf_w a view of the original
SwapGateBlocks(torch_w, tf_w, cell_size) ==
    LET first == AssignRows(torch_w, 1 * cell_size,
                            RowSlice(tf_w, 2 * cell_size, 3 * cell_size))
    IN AssignRows(first, 2 * cell_size,
                  RowSlice(tf_w, 1 * cell_size, 2 * cell_size))

\* Lines 433-450: the two gate matrices made from the dataset's W_0
LoadedGateWeights(W_0, input_size, cell_size) ==
    LET tf_weights == Transpose(W_0)
        torch_weights == tf_weights
        total == NumCols(tf_weights)
        input_weights == ColumnSlice(torch_weights, 0, input_size)
        recurrent_weights == ColumnSlice(torch_weights, input_size, total)
        tf_input_weights == ColumnSlice(tf_weights, 0, input_size)
        tf_recurrent_weights == ColumnSlice(tf_weights, input_size, total)
    IN [input_linearity |-> SwapGateBlocks(input_weights, tf_input_weights, cell_size),
        state_linearity |-> SwapGateBlocks(recurrent_weights, tf_recurrent_weights,
                                           cell_size)]

\* Line 458 left out
AddOneNowhere(v, lo, hi) == v

\* Line 458: v[lo:hi] += 1
AddOne(v, lo, hi) == [k \in DOMAIN v |-> IF lo <= k /\ k < hi THEN v[k] + 1 ELSE v[k]]

\* Lines 455-464: the state_linearity bias made from the dataset's B
LoadedBias(B, cell_size) ==
    LET tf_bias == AddOne(B, 2 * cell_size, 3 * cell_size)
        torch_bias == tf_bias
        first == AssignRows(torch_bias, 1 * cell_size,
                            RowSlice(tf_bias, 2 * cell_size, 3 * cell_size))
    IN AssignRows(first, 2 * cell_size, RowSlice(tf_bias, 1 * cell_size, 2 * cell_size))

\* Lines 70-96: the parameters of a freshly constructed LstmCellWithProjection
\* (orthogonal gate matrices, zero bias with the forget block at 1)
NewCell(input_size, hidden_size, cell_size) ==
    [input_size |-> input_size,
     cell_size |-> cell_size,
     input_linearity_weight |->
         [r \in 0..4*cell_size-1 |-> [c \in 0..input_size-1 |-> IF r = c THEN 1 ELSE 0]],
     state_linearity_weight |->
         [r \in 0..4*cell_size-1 |-> [c \in 0..hidden_size-1 |-> IF r = c THEN 1 ELSE 0]],
     state_linearity_bias |->
         [k \in 0..4*cell_size-1 |-> IF cell_size <= k /\ k < 2 * cell_size THEN 1 ELSE 0],
     state_projection_weight |->
         [r \in 0..hidden_size-1 |-> [c \in 0..cell_size-1 |-> 0]],
     requires_grad |-> [input_linearity_weight |-> TRUE,
                        state_linearity_weight |-> TRUE,
                        state_linearity_bias |-> TRUE,
                        state_projection_weight |-> TRUE]]

\* Lines 271-282
NewEncoder(projection_dim, dim, n_layers) ==
    [input_size |-> projection_dim, hidden_size |-> projection_dim,
     cell_size |-> dim, num_layers |-> n_layers]

\* Lines 284-311
NewLayers(enc) ==
    [k \in (0..enc.num_layers-1) \X (0..1) |->
        NewCell(enc.input_size, enc.hidden_size, enc.cell_size)]

\* An LSTMCell dataset of the weight file: W_0 of shape
\* (input_size + hidden_size, 4 * cell_size), B of shape (4 * cell_size,),
\* W_P_0 of shape (cell_size, hidden_size).  Fill 0 gives every gate block
\* its own constant, fills 1 and 2 give every element its own value.
Dataset(fill, cell, in_size, hid_size, cell_size) ==
    [W_0 |-> [r \in 0..in_size+hid_size-1 |-> [c \in 0..4*cell_size-1 |->
                IF fill = 0 THEN 10 * ((c \div cell_size) + 1)
                ELSE fill * (100 * cell + 4 * cell_size * r + c + 1)]],
     B |-> [k \in 0..4*cell_size-1 |->
                IF fill = 0 THEN 10 * ((k \div cell_size) + 1)
                ELSE fill * (10 * cell + k) - 3],
     W_P_0 |-> [r \in 0..cell_size-1 |-> [c \in 0..hid_size-1 |->
                fill * (50 * cell + hid_size * r + c) + 7]]]

\* The weight files for an encoder: <<j_direction, i_layer>> -> dataset
WeightFiles(enc) ==
    { [k \in (0..1) \X (0..enc.num_layers-1) |->
          Dataset(fill, 2 * k[2] + k[1], enc.input_size, enc.hidden_size, enc.cell_size)]
      : fill \in 0..2 }

\* An ElmobiLm has been constructed and load_weights is about to be called
LoadInit ==
    /\ \E p \in 1..MaxProjDim, c \in 1..MaxCellSize, n \in 1..MaxLayers :
          encoder = NewEncoder(p, c, n)
    /\ layers = NewLayers(encoder)
    /\ h5_rnn \in WeightFiles(encoder)
    /\ fin = None
    /\ i_layer = 0
    /\ j_direction = 0
    /\ load_pc = "ready"
    /\ load_calls = 0

\* Lines 412-418: load_weights opens the file
LoadWeightsOpen ==
    /\ load_pc = "ready"
    /\ load_calls < MaxLoads
    /\ model_pc = "load_weights" => load_calls = 0       \* line 839: one call
    /\ model_pc = "load_weights" => ~weight_file[1].sub  \* line 418 finds the file
    /\ fin' = h5_rnn
    /\ i_layer' = 0
    /\ j_direction' = 0
    /\ load_pc' = "cell"
    /\ load_calls' = load_calls + 1
    /\ UNCHANGED <<encoder, layers, h5_rnn>>
    /\ UNCHANGED otherThanLoadVars

\* Lines 419-470: one iteration of the loops over layers and directions
LoadWeightsCell ==
    /\ load_pc = "cell"
    /\ i_layer < encoder.num_layers
    /\ LET lstm == layers[<<i_layer, j_direction>>]
           cell_size == lstm.cell_size
           dataset == fin[<<j_direction, i_layer>>]
           gates == LoadedGateWeights(dataset.W_0, lstm.input_size, cell_size)
           requires_grad == FALSE
       IN layers' = [layers EXCEPT ![<<i_layer, j_direction>>] =
             [lstm EXCEPT
                !.input_linearity_weight = gates.input_linearity,
                !.state_linearity_weight = gates.state_linearity,
                !.state_linearity_bias = LoadedBias(dataset.B, cell_size),
                !.state_projection_weight = Transpose(dataset.W_P_0),
                !.requires_grad = [input_linearity_weight |-> requires_grad,
                                   state_linearity_weight |-> requires_grad,
                                   state_linearity_bias |-> requires_grad,
                                   state_projection_weight |-> requires_grad]]]
    /\ IF j_direction = 0
       THEN j_direction' = 1 /\ i_layer' = i_layer
       ELSE j_direction' = 0 /\ i_layer' = i_layer + 1
    /\ UNCHANGED <<encoder, h5_rnn, fin, load_pc, load_calls>>
    /\ UNCHANGED otherThanLoadVars

\* Lines 418-419: the loops are over, the file is closed and the call returns
LoadWeightsClose ==
    /\ load_pc = "cell"
    /\ i_layer = encoder.num_layers
    /\ fin' = None
    /\ load_pc' = "ready"
    /\ UNCHANGED <<encoder, layers, h5_rnn, i_layer, j_direction, load_calls>>
    /\ UNCHANGED otherThanLoadVars

\* No encoder has been constructed
LoadIdle ==
    /\ encoder = None
    /\ layers = None
    /\ h5_rnn = None
    /\ fin = None
    /\ i_layer = 0
    /\ j_direction = 0
    /\ load_pc = "idle"
    /\ load_calls = 0

\* ------------------------------------------------------------------------
\* _ElmoModel.__init__, ConvTokenEmbedder, LstmTokenEmbedder, LstmbiLm
\* ------------------------------------------------------------------------
\* A file name os.walk yields, by the two substrings lines 723 and 726 look
\* for and by where it lies: in model_dir itself or in a directory below it
\* (line 721 walks the whole tree)
FileNames == [json : BOOLEAN, hdf5 : BOOLEAN, sub : BOOLEAN]

\* os.walk is top-down: the files of model_dir come before those below it
TopDown(names) ==
    \A k \in 1..Len(names), l \in 1..Len(names) :
        (k < l /\ names[k].sub) => names[l].sub

RECURSIVE SeqsUpTo(_, _)
SeqsUpTo(S, n) ==
    IF n = 0 THEN { <<>> }
    ELSE SeqsUpTo(S, n - 1) \cup
         { Append(q, x) : q \in { q \in SeqsUpTo(S, n - 1) : Len(q) = n - 1 }, x \in S }

\* str.lower on the names the configurations use
Lower(name) ==
    CASE name = "CNN" -> "cnn"
      [] name = "ELMo" -> "elmo"
      [] OTHER -> name

TokenEmbedderNames == {"cnn", "CNN", "lstm", "rnn"}

EncoderNames == {"elmo", "ELMo", "lstm", "gru"}

\* The filters [[width, num], ...] of a configuration with n of them
Filters(n) == [i \in 1..n |-> <<i, 1>>]

\* The configurations a model directory may hold
Configs ==
    [token_embedder_name : TokenEmbedderNames,
     embedding_dim : {0, 1},
     word_dim : {0, 1},
     filters : { Filters(n) : n \in 1..MaxFilters },
     n_highway : 0..MaxHighway,
     encoder_name : EncoderNames,
     projection_dim : {MaxProjDim},
     dim : {MaxCellSize},
     n_layers : 1..MaxLayers]

\* A Vocabulary argument, by its _no_create_word_length; None is the default
Vocabulary(no_create_word_length) == <<no_create_word_length>>

\* The special words line 758 asserts to be in char.dic
SpecialWords == {"<pad>", "<oov>", "<bow>", "<eow>"}

\* What char.dic may list of them
CharLexicons == { SpecialWords, SpecialWords \ {"<eow>"} }

Parameter(owner, module, idx, name, loaded, requires_grad) ==
    [owner |-> owner, module |-> module, index |-> idx, name |-> name,
     loaded |-> loaded, requires_grad |-> requires_grad]

ModelInit ==
    /\ dir \in { names \in SeqsUpTo(FileNames, MaxFiles) : TopDown(names) }
    /\ config_count = 0
    /\ weight_count = 0
    /\ vocab \in {None, Vocabulary(0), Vocabulary(1)}
    /\ cache_word_reprs \in BOOLEAN
    /\ config = None
    /\ char_emb_layer = None
    /\ attributes = {}
    /\ parameters = {}
    /\ filter_index = 0
    /\ highway_index = 0
    /\ config_file = None
    /\ weight_file = None
    /\ model_pc = "walk"

\* Lines 721-728: one file name of the walk
ModelWalk ==
    /\ model_pc = "walk"
    /\ dir # <<>>
    /\ LET file_name == Head(dir)
       IN IF file_name.json
          THEN /\ config_file' = <<file_name>>
               /\ config_count' = config_count + 1
               /\ UNCHANGED <<weight_file, weight_count>>
          ELSE IF file_name.hdf5
               THEN /\ weight_file' = <<file_name>>
                    /\ weight_count' = weight_count + 1
                    /\ UNCHANGED <<config_file, config_count>>
               ELSE UNCHANGED <<config_file, config_count, weight_file, weight_count>>
    /\ dir' = Tail(dir)
    /\ UNCHANGED <<vocab, cache_word_reprs, config, char_emb_layer, attributes,
                   parameters, filter_index, highway_index, model_pc>>
    /\ UNCHANGED <<otherThanModelVars, loadVars>>

\* Lines 729-737: the counts are checked and the configuration is parsed
ModelReadConfig ==
    /\ model_pc = "walk"
    /\ dir = <<>>
    /\ IF config_count > 1 \/ weight_count > 1
       THEN model_pc' = "Exception" /\ UNCHANGED config
       ELSE IF config_count = 0 \/ weight_count = 0
            THEN model_pc' = "Exception" /\ UNCHANGED config
            ELSE IF config_file[1].sub      \* line 734 joins model_dir, not the
                                            \* directory the name was found in
                 THEN model_pc' = "FileNotFoundError" /\ UNCHANGED config
                 ELSE config' \in Configs /\ model_pc' = "char_embedding"
    /\ UNCHANGED <<dir, config_count, weight_count, vocab, cache_word_reprs,
                   char_emb_layer, attributes, parameters, filter_index,
                   highway_index>>
    /\ UNCHANGED <<config_file, weight_file>>
    /\ UNCHANGED <<otherThanModelVars, loadVars>>

\* Line 769: the attributes forward reads the marker and padding indices from
MarkerIndices == {"bos_index", "eos_index", "_pad_index"}

\* Line 771: nn.Embedding creates its weight trainable; line 783 copies the
\* checkpoint's rows into it
NewCharEmbedding == <<[loaded |-> TRUE, requires_grad |-> TRUE]>>

\* Lines 747-815: the character vocabulary, embedding and word-to-character table
ModelCharEmbedding ==
    /\ model_pc = "char_embedding"
    /\ IF config.embedding_dim > 0
       THEN \E char_lexicon \in CharLexicons :
               IF ~(SpecialWords \subseteq char_lexicon)
               THEN /\ model_pc' = "AssertionError"
                    /\ UNCHANGED <<char_emb_layer, attributes, parameters>>
               ELSE IF vocab = None
               THEN /\ model_pc' = "TypeError"                      \* line 766
                    /\ UNCHANGED <<char_emb_layer, attributes, parameters>>
               ELSE IF weight_file[1].sub
               THEN /\ model_pc' = "OSError"        \* line 773 opens the path of line 735
                    /\ char_emb_layer' = NewCharEmbedding
                    /\ attributes' = attributes \cup MarkerIndices
                    /\ UNCHANGED parameters
               ELSE IF Lower(config.token_embedder_name) \notin {"cnn", "lstm"}
               THEN /\ model_pc' = "ValueError"                     \* line 792
                    /\ char_emb_layer' = NewCharEmbedding
                    /\ attributes' = attributes \cup MarkerIndices
                    /\ UNCHANGED parameters
               ELSE /\ char_emb_layer' = NewCharEmbedding
                    /\ parameters' = parameters \cup
                          { Parameter("self", "", 0, "words_to_chars_embedding",
                                      FALSE, FALSE) }
                    /\ attributes' = attributes \cup MarkerIndices \cup
                          {"words_to_chars_embedding", "char_vocab"}
                    /\ model_pc' = "token_embedder"
       ELSE /\ char_emb_layer' = None
            /\ model_pc' = "token_embedder"
            /\ UNCHANGED <<attributes, parameters>>
    /\ UNCHANGED <<dir, config_count, weight_count, vocab, cache_word_reprs, config,
                   filter_index, highway_index>>
    /\ UNCHANGED <<config_file, weight_file>>
    /\ UNCHANGED <<otherThanModelVars, loadVars>>

\* The parameters a module gets from a submodule it stores (line 478, 518)
CharEmbeddingParameters(layer) ==
    IF layer = None THEN {}
    ELSE { Parameter("token_embedder", "char_emb_layer", 0, "weight",
                     layer[1].loaded, layer[1].requires_grad) }

\* Lines 474-489: LstmTokenEmbedder.__init__
LstmTokenEmbedderParameters(layer) ==
    CharEmbeddingParameters(layer)
    \cup (IF layer = None THEN {}
          ELSE { Parameter("token_embedder", "char_lstm", 0, name, FALSE, TRUE) :
                    name \in {"weight_ih_l0", "weight_hh_l0", "bias_ih_l0",
                              "bias_hh_l0", "weight_ih_l0_reverse",
                              "weight_hh_l0_reverse", "bias_ih_l0_reverse",
                              "bias_hh_l0_reverse"} })
    \cup { Parameter("token_embedder", "projection", 0, name, FALSE, TRUE) :
              name \in {"weight", "bias"} }

\* Lines 817-822 with lines 514-522: the token embedder is chosen and its
\* constructor entered
ModelTokenEmbedder ==
    /\ model_pc = "token_embedder"
    /\ IF Lower(config.token_embedder_name) = "cnn"
       THEN IF "char_vocab" \notin attributes
            THEN /\ model_pc' = "AttributeError"                    \* line 819
                 /\ UNCHANGED <<parameters, attributes>>
            ELSE /\ parameters' = parameters \cup CharEmbeddingParameters(char_emb_layer)
                 /\ model_pc' = "_load_cnn_weights"
                 /\ UNCHANGED attributes
       ELSE IF Lower(config.token_embedder_name) = "lstm"
            THEN IF char_emb_layer # None
                 THEN /\ model_pc' = "AttributeError"     \* lines 484-485: nn.Embedding
                      /\ UNCHANGED <<parameters, attributes>>  \* has no attribute n_d
                 ELSE /\ parameters' = parameters
                                          \cup LstmTokenEmbedderParameters(char_emb_layer)
                      /\ attributes' = attributes \cup {"token_embedder"}
                      /\ model_pc' = "words_to_words"
            ELSE /\ model_pc' = "words_to_words"
                 /\ UNCHANGED <<parameters, attributes>>
    /\ filter_index' = 0
    /\ highway_index' = 0
    /\ UNCHANGED <<dir, config_count, weight_count, vocab, cache_word_reprs, config,
                   char_emb_layer>>
    /\ UNCHANGED <<config_file, weight_file>>
    /\ UNCHANGED <<otherThanModelVars, loadVars>>

\* numpy.transpose(weight.squeeze(axis=0), axes=(2, 1, 0)).shape
ReshapedShape(shape) == <<shape[4], shape[3], shape[2]>>

\* The shapes W_cnn_i may have in the weight file: the one written for this
\* filter, (1, width, char_embed_dim, num), or one for a wider filter
CnnWeightShapes(width, num, char_embed_dim) ==
    { <<1, width, char_embed_dim, num>>, <<1, width + 1, char_embed_dim, num>> }

\* Lines 537-559: one convolution of _load_cnn_weights
ConvLoadCnn ==
    /\ model_pc = "_load_cnn_weights"
    /\ filter_index < Len(config.filters)
    /\ LET width == config.filters[filter_index + 1][1]
           num == config.filters[filter_index + 1][2]
           char_embed_dim == config.embedding_dim
           conv_shape == <<num, char_embed_dim, width>>
           requires_grad == FALSE                                    \* line 522
       IN \E weight_shape \in CnnWeightShapes(width, num, char_embed_dim) :
             IF ReshapedShape(weight_shape) # conv_shape
             THEN /\ model_pc' = "ValueError"
                  /\ UNCHANGED <<parameters, filter_index>>
             ELSE /\ parameters' = parameters \cup
                        { Parameter("token_embedder", "char_conv", filter_index, name,
                                    TRUE, requires_grad) : name \in {"weight", "bias"} }
                  /\ filter_index' = filter_index + 1
                  /\ UNCHANGED model_pc
    /\ UNCHANGED <<dir, config_count, weight_count, vocab, cache_word_reprs, config,
                   char_emb_layer, attributes, highway_index>>
    /\ UNCHANGED <<config_file, weight_file>>
    /\ UNCHANGED <<otherThanModelVars, loadVars>>

\* Lines 561-571: the convolutions are stored and the Highway is created
ConvStartHighway ==
    /\ model_pc = "_load_cnn_weights"
    /\ filter_index = Len(config.filters)
    /\ parameters' = parameters \cup
          { Parameter("token_embedder", "_highways", k, name, FALSE, TRUE) :
               k \in 0..config.n_highway-1, name \in {"weight", "bias"} }
    /\ highway_index' = 0
    /\ model_pc' = "_load_highway"
    /\ UNCHANGED <<dir, config_count, weight_count, vocab, cache_word_reprs, config,
                   char_emb_layer, attributes, filter_index>>
    /\ UNCHANGED <<config_file, weight_file>>
    /\ UNCHANGED <<otherThanModelVars, loadVars>>

\* p.data.copy_(...) followed by p.requires_grad = requires_grad
CopyInto(params, module, idx, requires_grad) ==
    { IF p.module = module /\ p.index = idx
      THEN [p EXCEPT !.loaded = TRUE, !.requires_grad = requires_grad]
      ELSE p : p \in params }

\* Lines 572-589: one layer of _load_highway
ConvLoadHighway ==
    /\ model_pc = "_load_highway"
    /\ highway_index < config.n_highway
    /\ parameters' = CopyInto(parameters, "_highways", highway_index, FALSE)
    /\ highway_index' = highway_index + 1
    /\ UNCHANGED <<dir, config_count, weight_count, vocab, cache_word_reprs, config,
                   char_emb_layer, attributes, filter_index, model_pc>>
    /\ UNCHANGED <<config_file, weight_file>>
    /\ UNCHANGED <<otherThanModelVars, loadVars>>

\* Lines 591-604 and 524: _load_projection, the end of the constructor and
\* the assignment of line 818
ConvLoadProjection ==
    /\ model_pc = "_load_highway"
    /\ highway_index = config.n_highway
    /\ parameters' = parameters \cup
          { Parameter("token_embedder", "_projection", 0, name, TRUE, FALSE) :
               name \in {"weight", "bias"} }
    /\ attributes' = attributes \cup {"token_embedder"}
    /\ model_pc' = "words_to_words"
    /\ UNCHANGED <<dir, config_count, weight_count, vocab, cache_word_reprs, config,
                   char_emb_layer, filter_index, highway_index>>
    /\ UNCHANGED <<config_file, weight_file>>
    /\ UNCHANGED <<otherThanModelVars, loadVars>>

\* Lines 824-831: the word-to-word table
ModelWordsToWords ==
    /\ model_pc = "words_to_words"
    /\ IF config.word_dim > 0
       THEN IF vocab = None
            THEN /\ model_pc' = "AttributeError"                    \* line 825
                 /\ UNCHANGED parameters
            ELSE IF vocab[1] > 0
            THEN IF "token_embedder" \notin attributes
                 THEN /\ model_pc' = "AttributeError"               \* line 830
                      /\ UNCHANGED parameters
                 ELSE /\ parameters' = parameters \cup
                            { Parameter("token_embedder", "", 0, "words_to_words",
                                        FALSE, FALSE) }
                      /\ model_pc' = "encoder"
            ELSE /\ model_pc' = "encoder"
                 /\ UNCHANGED parameters
       ELSE /\ model_pc' = "encoder"
            /\ UNCHANGED parameters
    /\ UNCHANGED <<dir, config_count, weight_count, vocab, cache_word_reprs, config,
                   char_emb_layer, attributes, filter_index, highway_index>>
    /\ UNCHANGED <<config_file, weight_file>>
    /\ UNCHANGED <<otherThanModelVars, loadVars>>

\* Lines 244-253: the parameters of an LstmbiLm
LstmbiLmParameters(n_layers) ==
    { Parameter("encoder", "encoder", k, name, FALSE, TRUE) :
         k \in 0..n_layers-1,
         name \in {"weight_ih", "weight_hh", "bias_ih", "bias_hh", "weight_ih_reverse",
                   "weight_hh_reverse", "bias_ih_reverse", "bias_hh_reverse"} }
    \cup { Parameter("encoder", "projection", 0, name, FALSE, TRUE) :
              name \in {"weight", "bias"} }

\* Lines 833-839: the encoder is chosen and constructed, load_weights looked up
ModelEncoder ==
    /\ model_pc = "encoder"
    /\ IF Lower(config.encoder_name) = "elmo"
       THEN /\ encoder' = NewEncoder(config.projection_dim, config.dim, config.n_layers)
            /\ layers' = NewLayers(encoder')
            /\ h5_rnn' \in WeightFiles(encoder')
            /\ load_pc' = "ready"
            /\ attributes' = attributes \cup {"encoder"}
            /\ model_pc' = "load_weights"
            /\ UNCHANGED parameters
       ELSE IF Lower(config.encoder_name) = "lstm"
            THEN /\ parameters' = parameters \cup LstmbiLmParameters(config.n_layers)
                 /\ attributes' = attributes \cup {"encoder"}
                 /\ model_pc' = "AttributeError"        \* LstmbiLm has no load_weights
                 /\ UNCHANGED <<encoder, layers, h5_rnn, load_pc>>
            ELSE /\ model_pc' = "AttributeError"        \* self.encoder was never set
                 /\ UNCHANGED <<encoder, layers, h5_rnn, load_pc, attributes, parameters>>
    /\ UNCHANGED <<fin, i_layer, j_direction, load_calls>>
    /\ UNCHANGED <<dir, config_count, weight_count, vocab, cache_word_reprs, config,
                   char_emb_layer, filter_index, highway_index, config_file,
                   weight_file>>
    /\ UNCHANGED otherThanModelVars

\* Line 839 with line 418: with no character embedding, load_weights is the
\* first to open the weight file, under the path line 735 built
ModelWeightFileMissing ==
    /\ model_pc = "load_weights"
    /\ load_pc = "ready"
    /\ load_calls = 0
    /\ weight_file[1].sub
    /\ model_pc' = "OSError"
    /\ UNCHANGED <<dir, config_count, weight_count, vocab, cache_word_reprs, config,
                   char_emb_layer, attributes, parameters, filter_index,
                   highway_index, config_file, weight_file>>
    /\ UNCHANGED <<otherThanModelVars, loadVars>>

\* Lines 841-864: load_weights has returned; the word representations are
\* cached if asked for
ModelCache ==
    /\ model_pc = "load_weights"
    /\ load_pc = "ready"
    /\ load_calls = 1
    /\ IF cache_word_reprs /\ config.embedding_dim > 0
       THEN /\ parameters' =
                  { p \in parameters : p.owner # "token_embedder"
                                        /\ p.name # "words_to_chars_embedding" }
                  \cup { Parameter("self", "cached_word_embedding", 0, "weight",
                                   FALSE, TRUE) }
            /\ attributes' = (attributes \ {"token_embedder", "words_to_chars_embedding"})
                                \cup {"cached_word_embedding"}
       ELSE UNCHANGED <<parameters, attributes>>
    /\ model_pc' = "done"
    /\ UNCHANGED <<dir, config_count, weight_count, vocab, cache_word_reprs, config,
                   char_emb_layer, filter_index, highway_index>>
    /\ UNCHANGED <<config_file, weight_file>>
    /\ UNCHANGED <<otherThanModelVars, loadVars>>

\* No model is under construction
ModelIdle ==
    /\ dir = <<>>
    /\ config_count = 0
    /\ weight_count = 0
    /\ vocab = None
    /\ cache_word_reprs = FALSE
    /\ config = None
    /\ char_emb_layer = None
    /\ attributes = {}
    /\ parameters = {}
    /\ filter_index = 0
    /\ highway_index = 0
    /\ config_file = None
    /\ weight_file = None
    /\ model_pc = "idle"

\* ---------------------------------------------------------------------
\* _ElmoModel.forward (lines 866-906)

\* The configurations with which __init__ returns a model: line 839 needs the
\* ElmobiLm, line 819 needs the character vocabulary, lines 484 and 792 must
\* not be reached
Constructible(c) ==
    /\ Lower(c.encoder_name) = "elmo"
    /\ IF c.embedding_dim > 0 THEN Lower(c.token_embedder_name) = "cnn"
                              ELSE Lower(c.token_embedder_name) # "cnn"

\* The attributes __init__ leaves on the model it returns (lines 769, 794,
\* 813, 817-822, 835, 850, 862)
ConstructedAttributes(c, cache) ==
    {"encoder"}
    \cup (IF c.embedding_dim > 0 THEN MarkerIndices \cup {"char_vocab"} ELSE {})
    \cup (IF c.embedding_dim > 0 /\ cache
          THEN {"cached_word_embedding"}
          ELSE IF c.embedding_dim > 0
               THEN {"words_to_chars_embedding", "token_embedder"}
               ELSE IF Lower(c.token_embedder_name) = "lstm"
                    THEN {"token_embedder"}
                    ELSE {})

\* Line 769: vocab.padding_idx, len(vocab), len(vocab)+1 for a vocabulary of
\* the padding entry and the words 1..MaxTime, the first of them the unknown
\* word (vocab.unknown_idx, line 829)
PadIndex == 0
UnknownIndex == 1
BosIndex == MaxTime + 1
EosIndex == MaxTime + 2

\* Lines 826-829: the table from every index, the markers' included, to
\* itself, but from the words that create no entry to the unknown index
WordsToWords(no_create) ==
    [idx \in 0..BosIndex+1 |-> IF idx \in no_create THEN UnknownIndex ELSE idx]

\* Lines 824-830, 862: the table set on the token embedder, gone with it
AttachedTable(c, cache, no_create) ==
    IF /\ c.word_dim > 0
       /\ no_create # {}
       /\ "token_embedder" \in ConstructedAttributes(c, cache)
    THEN WordsToWords(no_create)
    ELSE None

\* The models __init__ returns, by what forward reads of them; the last word
\* of the vocabulary may be one that creates no entry
ElmoModels ==
    { [encoder_name |-> c.encoder_name, n_layers |-> c.n_layers,
       projection_dim |-> c.projection_dim,
       attributes |-> ConstructedAttributes(c, cache),
       words_to_words |-> AttachedTable(c, cache, no_create)] :
         c \in { c \in Configs : Constructible(c) }, cache \in BOOLEAN,
         no_create \in {{}, {MaxTime}} }

\* Batches of word ids, each row padded at its end
WordBatches ==
    UNION { { [b \in DOMAIN lens |-> [t \in 0..max_len-1 |->
                                        IF t < lens[b] THEN t + 1 ELSE PadIndex]] :
                lens \in [0..n-1 -> 0..max_len] } :
            n \in 1..MaxBatch, max_len \in 1..MaxTime }

\* What the networks compute is left uninterpreted: a token embedding is named
\* by the word it embeds, an encoder state by its layer, position and word
Embed(word, dim) == [k \in 0..dim-1 |-> <<word, k>>]
Hidden(layer, t, word, dim) == [k \in 0..dim-1 |-> <<layer, t, word, k>>]
Zeros(dim) == [k \in 0..dim-1 |-> <<>>]

ForwardLocalsInit ==
    /\ expanded_words = None
    /\ forward_seq_len = None
    /\ token_embedding = None
    /\ encoder_output = None
    /\ token_path = "none"

ForwardInit ==
    /\ elmo \in ElmoModels
    /\ words \in WordBatches
    /\ ForwardLocalsInit
    /\ forward_pc = "call"

\* Line 878 with the end marker written at position seq_len
EosPositionNoShift(len) == len

\* Line 878: the end marker is written at position seq_len + 1
EosPosition(len) == len + 1

\* Lines 873-879: the markers are written around each row
ForwardExpand ==
    /\ forward_pc = "call"
    /\ IF ~(MarkerIndices \subseteq elmo.attributes)
       THEN /\ forward_pc' = "AttributeError"                       \* line 875
            /\ UNCHANGED <<expanded_words, forward_seq_len>>
       ELSE LET max_len == Rows(words[0])
                lens == [b \in DOMAIN words |->
                           Cardinality({ t \in DOMAIN words[b] : words[b][t] # PadIndex })]
            IN /\ expanded_words' =
                     [b \in DOMAIN words |-> [t \in 0..max_len+1 |->
                         IF t = EosPosition(lens[b]) THEN EosIndex
                         ELSE IF t = 0 THEN BosIndex
                         ELSE IF t <= max_len THEN words[b][t-1]
                         ELSE 0]]
               /\ forward_seq_len' = [b \in DOMAIN words |-> lens[b] + 2]
               /\ forward_pc' = "token_embedding"
    /\ UNCHANGED <<elmo, words, token_embedding, encoder_output, token_path>>
    /\ UNCHANGED <<cellVars, bilmVars, loadVars, modelVars, charVars, cacheVars,
                   trainVars, storageVars>>

\* Lines 880-887: the cached table or the token embedder embeds the words.
\* ConvTokenEmbedder.forward (lines 606-650) computes from chars alone, the row
\* of each word's own index (line 884); LstmTokenEmbedder.forward would read
\* words_to_words only with a word_emb_layer (lines 493-495), which lines 819
\* and 822 never pass.
ForwardTokenEmbedding ==
    /\ forward_pc = "token_embedding"
    /\ LET embedded == [b \in DOMAIN expanded_words |->
                          [t \in DOMAIN expanded_words[b] |->
                              Embed(expanded_words[b][t], elmo.projection_dim)]]
       IN IF "cached_word_embedding" \in elmo.attributes
          THEN /\ token_embedding' = embedded
               /\ token_path' = "cached_word_embedding"
               /\ forward_pc' = "encoder"
          ELSE IF "token_embedder" \notin elmo.attributes
               THEN /\ forward_pc' = "AttributeError"               \* line 887
                    /\ UNCHANGED <<token_embedding, token_path>>
               ELSE /\ token_embedding' = embedded
                    /\ token_path' = "token_embedder"
                    /\ forward_pc' = "encoder"
    /\ UNCHANGED <<elmo, words, expanded_words, forward_seq_len, encoder_output>>
    /\ UNCHANGED <<cellVars, bilmVars, loadVars, modelVars, charVars, cacheVars,
                   trainVars, storageVars>>

\* Lines 313-327: ElmobiLm.forward returns num_layers x batch x output_len x
\* hidden_size, output_len the longest row's, zero beyond each row's length
ElmobiLmOutput(n_layers, ids, lens, hidden_size) ==
    [l \in 0..n_layers-1 |-> [b \in DOMAIN ids |->
        [t \in 0..MaxOf(lens)-1 |->
            IF t < lens[b] THEN Hidden(l + 1, t, ids[b][t], hidden_size)
                           ELSE Zeros(hidden_size)]]]

PadTimeNever(output, length, hidden_size) == output

\* Lines 891-895: zeros are appended on the time axis up to max_len + 2
PadTime(output, length, hidden_size) ==
    [l \in DOMAIN output |-> [b \in DOMAIN output[l] |->
        [t \in 0..Max(length, Rows(output[l][b]))-1 |->
            IF t < Rows(output[l][b]) THEN output[l][b][t] ELSE Zeros(hidden_size)]]]

\* Line 897: torch.cat((token_embedding, token_embedding), dim=2)
Duplicate(embedding) ==
    [b \in DOMAIN embedding |-> [t \in DOMAIN embedding[b] |->
        [k \in 0..2*Rows(embedding[b][t])-1 |->
            embedding[b][t][k % Rows(embedding[b][t])]]]]

\* Line 898: torch.cat((token_embedding, encoder_output), dim=0)
CatLayers(first, output) ==
    [l \in 0..Rows(output) |-> IF l = 0 THEN first ELSE output[l-1]]

\* Lines 889-902: the encoder, by the name the configuration spells
ForwardEncoder ==
    /\ forward_pc = "encoder"
    /\ IF elmo.encoder_name = "elmo"
       THEN LET max_len == Rows(words[0])
                hidden_size == 2 * elmo.projection_dim
                output == ElmobiLmOutput(elmo.n_layers, expanded_words,
                                         forward_seq_len, hidden_size)
            IN /\ encoder_output' =
                     CatLayers(Duplicate(token_embedding),
                               PadTime(output, max_len + 2, hidden_size))
               /\ forward_pc' = "strip"
       ELSE IF elmo.encoder_name = "lstm"
            THEN /\ forward_pc' = "AttributeError"  \* line 256: no self.batch_first
                 /\ UNCHANGED encoder_output
            ELSE /\ forward_pc' = "ValueError"                      \* line 902
                 /\ UNCHANGED encoder_output
    /\ UNCHANGED <<elmo, words, expanded_words, forward_seq_len, token_embedding,
                   token_path>>
    /\ UNCHANGED <<cellVars, bilmVars, loadVars, modelVars, charVars, cacheVars,
                   trainVars, storageVars>>

\* Line 905: encoder_output[:, :, 1:-1]
StripMarkers(output) ==
    [l \in DOMAIN output |-> [b \in DOMAIN output[l] |->
        [t \in 0..Rows(output[l][b])-3 |-> output[l][b][t+1]]]]

\* Lines 904-906
ForwardReturn ==
    /\ forward_pc = "strip"
    /\ encoder_output' = StripMarkers(encoder_output)
    /\ forward_pc' = "return"
    /\ UNCHANGED <<elmo, words, expanded_words, forward_seq_len, token_embedding,
                   token_path>>
    /\ UNCHANGED <<cellVars, bilmVars, loadVars, modelVars, charVars, cacheVars,
                   trainVars, storageVars>>

\* The caller calls forward again, with another batch
ForwardAgain ==
    /\ forward_pc \in {"return", "AttributeError", "ValueError"}
    /\ words' \in WordBatches
    /\ expanded_words' = None
    /\ forward_seq_len' = None
    /\ token_embedding' = None
    /\ encoder_output' = None
    /\ token_path' = "none"
    /\ forward_pc' = "call"
    /\ UNCHANGED elmo
    /\ UNCHANGED <<cellVars, bilmVars, loadVars, modelVars, charVars, cacheVars,
                   trainVars, storageVars>>

\* No forward call is made
ForwardIdle ==
    /\ elmo = None
    /\ words = None
    /\ ForwardLocalsInit
    /\ forward_pc = "idle"

\* ---------------------------------------------------------------------
\* The character vocabulary, the character embedding and the
\* word-to-character table (lines 739-813)

OOV_TAG == <<"<", "o", "o", "v", ">">>
PAD_TAG == <<"<", "p", "a", "d", ">">>
BOS_TAG == <<"<", "b", "o", "s", ">">>
EOS_TAG == <<"<", "e", "o", "s", ">">>
BOW_TAG == <<"<", "b", "o", "w", ">">>
EOW_TAG == <<"<", "e", "o", "w", ">">>

\* Vocabulary.add_word_lst: the words not yet known get the next indices
RECURSIVE add_word_lst(_, _)
add_word_lst(known, word_lst) ==
    IF word_lst = <<>> THEN known
    ELSE add_word_lst(IF \E i \in 1..Len(known) : known[i] = Head(word_lst)
                      THEN known ELSE Append(known, Head(word_lst)),
                      Tail(word_lst))

\* Vocabulary.to_index: the index of a known word, else the unknown index,
\* which is 1, after the padding's 0
to_index(known, word) ==
    IF \E i \in 1..Len(known) : known[i] = word
    THEN (CHOOSE i \in 1..Len(known) : known[i] = word) - 1
    ELSE 1

\* list(word): the characters of a str, each a str of length one
List(word) == [i \in 1..Len(word) |-> <<word[i]>>]

\* Lines 762-767
RECURSIVE AddCharacters(_, _)
AddCharacters(known, word_lst) ==
    IF word_lst = <<>> THEN known
    ELSE AddCharacters(add_word_lst(known, List(Head(word_lst))), Tail(word_lst))

\* The vocabularies: the padding entry, the unknown entry and one word of one
\* to MaxWordLen characters
WordLists ==
    { <<PAD_TAG, <<"<", "u", "n", "k", ">">>, word>> :
        word \in UNION { [1..n -> {"a", "b"}] : n \in 1..MaxWordLen } }

\* The lexicons of char.dic that pass lines 758-759, by the tokens they list
\* beside the four reserved ones; a token's row is its place in this order
LexiconOrder == <<EOW_TAG, <<"a">>, BOW_TAG, BOS_TAG, OOV_TAG, <<">">>, PAD_TAG>>

Lexicons ==
    { [token \in {PAD_TAG, OOV_TAG, BOW_TAG, EOW_TAG} \cup others |->
          (CHOOSE i \in 1..Len(LexiconOrder) : LexiconOrder[i] = token) - 1] :
        others \in SUBSET {<<"a">>, BOS_TAG, <<">">>} }

\* fin['char_embed'][...], by row
char_embed_weights(row) == Float(row)

CharsInit ==
    /\ word_list \in WordLists
    /\ char_dic \in Lexicons
    /\ max_chars \in 1..MaxChars
    /\ char_vocab = None
    /\ char_emb_weight = None
    /\ found_char_count = 0
    /\ words_to_chars_embedding = None
    /\ chars_index = 0
    /\ chars_pc = "char_vocab"

\* Lines 762-776: the character vocabulary and the embedding, its rows yet
\* to be written
CharsBuildVocabulary ==
    /\ chars_pc = "char_vocab"
    /\ \E built \in { AddCharacters(
                        add_word_lst(<<PAD_TAG, OOV_TAG>>,
                                     <<BOW_TAG, EOW_TAG, BOS_TAG, EOS_TAG>>),
                        word_list) } :
          /\ char_vocab' = built
          /\ char_emb_weight' = [row \in 0..Len(built) |-> None]
    /\ found_char_count' = 0
    /\ chars_index' = 0
    /\ chars_pc' = "copy"
    /\ UNCHANGED <<word_list, char_dic, max_chars, words_to_chars_embedding>>
    /\ UNCHANGED <<cellVars, bilmVars, loadVars, modelVars, forwardVars, cacheVars,
                   trainVars, storageVars>>

IndexInPreOfPadding(char, lexicon) == lexicon[PAD_TAG]

\* Lines 778-782
IndexInPre(char, lexicon) ==
    IF char \in DOMAIN lexicon THEN lexicon[char] ELSE lexicon[OOV_TAG]

\* Lines 777-783: one character of the loop
CharsCopyRow ==
    /\ chars_pc = "copy"
    /\ chars_index < Len(char_vocab)
    /\ LET char == char_vocab[chars_index + 1]
       IN /\ found_char_count' = IF char \in DOMAIN char_dic
                                 THEN found_char_count + 1 ELSE found_char_count
          /\ char_emb_weight' =
                [char_emb_weight EXCEPT
                    ![chars_index] = char_embed_weights(IndexInPre(char, char_dic))]
    /\ chars_index' = chars_index + 1
    /\ UNCHANGED <<word_list, char_dic, max_chars, char_vocab,
                   words_to_chars_embedding, chars_pc>>
    /\ UNCHANGED <<cellVars, bilmVars, loadVars, modelVars, forwardVars, cacheVars,
                   trainVars, storageVars>>

\* Lines 785-797: the table is allocated, filled with len(char_vocab)
CharsAllocateTable ==
    /\ chars_pc = "copy"
    /\ chars_index = Len(char_vocab)
    /\ words_to_chars_embedding' =
          [row \in 0..Len(word_list)+1 |-> [k \in 1..max_chars |-> Len(char_vocab)]]
    /\ chars_index' = 0
    /\ chars_pc' = "table"
    /\ UNCHANGED <<word_list, char_dic, max_chars, char_vocab, char_emb_weight,
                   found_char_count>>
    /\ UNCHANGED <<cellVars, bilmVars, loadVars, modelVars, forwardVars, cacheVars,
                   trainVars, storageVars>>

\* Lines 799-800
Truncated(word, limit) ==
    IF Len(word) + 2 > limit
    THEN SubSeq(word, 1, PySliceStop(Len(word), limit - 2))
    ELSE word

\* Lines 803-810
CharIds(word, known, limit) ==
    LET char_ids ==
           <<to_index(known, BOW_TAG)>>
           \o (IF word = BOS_TAG \/ word = EOS_TAG
               THEN <<to_index(known, word)>>
               ELSE [i \in 1..Len(word) |-> to_index(known, <<word[i]>>)])
           \o <<to_index(known, EOW_TAG)>>
    IN char_ids \o [i \in 1..(limit - Len(char_ids)) |-> to_index(known, PAD_TAG)]

\* Lines 798-813: one (word, index) of the loop; _pad_index is 0
CharsTableRow ==
    /\ chars_pc = "table"
    /\ LET word == Truncated((word_list \o <<BOS_TAG, EOS_TAG>>)[chars_index + 1],
                             max_chars)
           char_ids == CharIds(word, char_vocab, max_chars)
       IN IF chars_index = PadIndex
          THEN /\ chars_pc' = "table"                                 \* line 802
               /\ UNCHANGED words_to_chars_embedding
          ELSE IF Len(char_ids) # max_chars
               THEN /\ chars_pc' = "RuntimeError"                     \* line 811
                    /\ UNCHANGED words_to_chars_embedding
               ELSE /\ words_to_chars_embedding' =
                          [words_to_chars_embedding EXCEPT ![chars_index] = char_ids]
                    /\ chars_pc' = IF chars_index = Len(word_list) + 1 THEN "done"
                                                                ELSE "table"
    /\ chars_index' = chars_index + 1
    /\ UNCHANGED <<word_list, char_dic, max_chars, char_vocab, char_emb_weight,
                   found_char_count>>
    /\ UNCHANGED <<cellVars, bilmVars, loadVars, modelVars, forwardVars, cacheVars,
                   trainVars, storageVars>>

\* No character block is running
CharsIdle ==
    /\ word_list = None
    /\ char_dic = None
    /\ max_chars = 0
    /\ char_vocab = None
    /\ char_emb_weight = None
    /\ found_char_count = 0
    /\ words_to_chars_embedding = None
    /\ chars_index = 0
    /\ chars_pc = "idle"

\* ---------------------------------------------------------------------
\* The cache of word representations (lines 841-862)

\* Line 844
cache_batch_size == 320

NumBatchesFloor(size, batch) == size \div batch

\* Lines 847-848
NumBatches(size, batch) == size \div batch + (IF size % batch # 0 THEN 1 ELSE 0)

\* Line 846: the rows of words_to_chars_embedding, len(vocab) + 2
CacheInit ==
    /\ word_size \in 1..MaxWordSize
    /\ num_batches = 0
    /\ cache_i = 0
    /\ cached_rows = None
    /\ cache_pc = "start"

\* Lines 844-851
CacheStart ==
    /\ cache_pc = "start"
    /\ num_batches' = NumBatches(word_size, cache_batch_size)
    /\ cached_rows' = [row \in 0..word_size-1 |-> 0]
    /\ cache_i' = 0
    /\ cache_pc' = "batches"
    /\ UNCHANGED word_size
    /\ UNCHANGED <<cellVars, bilmVars, loadVars, modelVars, forwardVars, charVars,
                   trainVars, storageVars>>

\* Lines 853-862: one batch; after the last, the token embedder is deleted
CacheBatch ==
    /\ cache_pc = "batches"
    /\ IF cache_i < num_batches
       THEN LET first == cache_i * cache_batch_size
                stop == Min((cache_i + 1) * cache_batch_size, word_size)
            IN /\ cached_rows' = [row \in DOMAIN cached_rows |->
                                     IF first <= row /\ row < stop
                                     THEN cached_rows[row] + 1 ELSE cached_rows[row]]
               /\ cache_i' = cache_i + 1
               /\ UNCHANGED cache_pc
       ELSE /\ cache_pc' = "done"
            /\ UNCHANGED <<cached_rows, cache_i>>
    /\ UNCHANGED <<word_size, num_batches>>
    /\ UNCHANGED <<cellVars, bilmVars, loadVars, modelVars, forwardVars, charVars,
                   trainVars, storageVars>>

\* No cache is being computed
CacheIdle ==
    /\ word_size = 0
    /\ num_batches = 0
    /\ cache_i = 0
    /\ cached_rows = None
    /\ cache_pc = "idle"

\* ------------------------------------------------------------------------
\* BaseTrainer.train and the trainers (src/fastNLP/core/trainer.py)
\* ------------------------------------------------------------------------
\* The classes of the module that can be instantiated and trained
TrainerClasses == {"ToyTrainer", "SeqLabelTrainer", "ClassificationTrainer"}

\* The methods train calls, lines 82-117
TrainerMethods == {"define_optimizer", "mode", "data_forward", "get_loss",
                   "grad_backward", "update", "validator.test",
                   "best_eval_result", "save_model"}

\* What make_batch yields as batch_x: a tensor (arity 0) or a tuple of one or
\* two elements, the second the lengths of the rows; truth_ok tells whether
\* batch_y has the shape of the prediction (line 293)
TrainBatches ==
    { [arity |-> a, seq_len |-> <<>>, max_len |-> 2, truth_ok |-> ok] :
         a \in {0, 1}, ok \in BOOLEAN }
    \cup { [arity |-> 2, seq_len |-> l, max_len |-> 2, truth_ok |-> ok] :
              l \in {<<2>>, <<2, 1>>}, ok \in BOOLEAN }

NoBatch == [arity |-> 0, seq_len |-> <<>>, max_len |-> 0, truth_ok |-> TRUE]

\* The accuracies a validator reports
Accuracies == 0..MaxAccuracy

\* utils.seq_mask(seq_len, max_len) as bytes, lines 275-276
seq_mask(lens, max_len) ==
    [b \in 1..Len(lens) |-> [t \in 1..max_len |-> IF t <= lens[b] THEN 1 ELSE 0]]

\* Action.mode(network, test), line 147
ModeOf(test) == IF test THEN "test" ELSE "train"

\* Line 90 with range(0, self.n_epochs + 1)
EpochRangeFromZero(n) == [k \in 1..n+1 |-> k - 1]

\* Line 90: range(1, self.n_epochs + 1)
EpochRange(n) == [k \in 1..n |-> k]

\* Line 269 taking every batch for a tuple
IsTupleAlways(b) == TRUE

\* Line 269: isinstance(inputs, tuple)
IsTuple(b) == b.arity > 0

\* Line 113 with the validation run in every configuration
AfterBatchesAlways(v) == "validator.test"

\* Line 113: if self.validate
AfterBatches(v) == IF v THEN "validator.test" ELSE "epoch"

\* Lines 300, 368 with >= in place of >
IsBetterOrEqual(acc, best) == acc >= best

\* Lines 300, 368: accuracy > self.best_accuracy
IsBetter(acc, best) == acc > best

\* One more call of method m
Called(m) ==
    /\ call_count' = [call_count EXCEPT ![m] = @ + 1]
    /\ last_call' = m

\* The trainer as constructed (lines 38-50, 254-256, 330) and the arguments of
\* one call of train
TrainInit ==
    /\ trainer_class \in TrainerClasses
    /\ n_epochs \in 0..MaxEpochs
    /\ validate \in BOOLEAN
    /\ save_best_dev \in BOOLEAN
    /\ network_has_loss \in BOOLEAN
    /\ batches_per_epoch \in 0..MaxTrainBatches
    /\ epochs_started = 0
    /\ epoch = 0
    /\ step = 0
    /\ batch_x = NoBatch
    /\ self_mask = None
    /\ loss_func = "None"
    /\ best_accuracy = 0
    /\ accuracy = 0
    /\ accuracies = <<>>
    /\ best_result = "none"
    /\ saved_epoch = 0
    /\ network_mode = "unset"
    /\ network_calls = 0
    /\ call_count = [m \in TrainerMethods |-> 0]
    /\ last_call = "none"
    /\ train_pc = "train"

\* Lines 68-80: the model, the data and, when validating, the validator;
\* ToyTrainer inherits _create_validator, which raises (line 211)
TrainPrepare ==
    /\ train_pc = "train"
    /\ train_pc' = IF validate /\ trainer_class = "ToyTrainer"
                   THEN "NotImplementedError"
                   ELSE "define_optimizer"
    /\ UNCHANGED <<trainer_class, n_epochs, validate, save_best_dev,
                   network_has_loss, batches_per_epoch, epochs_started, epoch,
                   step, batch_x, self_mask, loss_func, best_accuracy, accuracy,
                   accuracies, best_result, saved_epoch, network_mode,
                   network_calls, call_count, last_call>>
    /\ UNCHANGED otherThanTrainVars

\* Lines 82-88
TrainDefineOptimizer ==
    /\ train_pc = "define_optimizer"
    /\ Called("define_optimizer")
    /\ train_pc' = "epoch"
    /\ UNCHANGED <<trainer_class, n_epochs, validate, save_best_dev,
                   network_has_loss, batches_per_epoch, epochs_started, epoch,
                   step, batch_x, self_mask, loss_func, best_accuracy, accuracy,
                   accuracies, best_result, saved_epoch, network_mode,
                   network_calls>>
    /\ UNCHANGED otherThanTrainVars

\* Lines 90-98: the next epoch starts: training mode, the batch iterator;
\* ToyTrainer inherits make_batch, which raises (line 144)
TrainEpoch ==
    /\ train_pc = "epoch"
    /\ epochs_started < Len(EpochRange(n_epochs))
    /\ epochs_started' = epochs_started + 1
    /\ epoch' = EpochRange(n_epochs)[epochs_started + 1]
    /\ Called("mode")
    /\ network_mode' = ModeOf(FALSE)
    /\ step' = 0
    /\ best_result' = "none"
    /\ train_pc' = IF trainer_class = "ToyTrainer" THEN "NotImplementedError"
                   ELSE "batch"
    /\ UNCHANGED <<trainer_class, n_epochs, validate, save_best_dev,
                   network_has_loss, batches_per_epoch, batch_x, self_mask,
                   loss_func, best_accuracy, accuracy, accuracies, saved_epoch,
                   network_calls>>
    /\ UNCHANGED otherThanTrainVars

\* Line 90: the range is exhausted and train returns
TrainReturn ==
    /\ train_pc = "epoch"
    /\ epochs_started >= Len(EpochRange(n_epochs))
    /\ train_pc' = "done"
    /\ UNCHANGED <<trainer_class, n_epochs, validate, save_best_dev,
                   network_has_loss, batches_per_epoch, epochs_started, epoch,
                   step, batch_x, self_mask, loss_func, best_accuracy, accuracy,
                   accuracies, best_result, saved_epoch, network_mode,
                   network_calls, call_count, last_call>>
    /\ UNCHANGED otherThanTrainVars

\* Line 98: the iterator yields the next batch, or the epoch's batches are over
\* (line 113)
TrainNextBatch ==
    /\ train_pc = "batch"
    /\ IF step < batches_per_epoch
       THEN /\ batch_x' \in TrainBatches
            /\ train_pc' = "data_forward"
       ELSE /\ train_pc' = AfterBatches(validate)
            /\ UNCHANGED batch_x
    /\ UNCHANGED <<trainer_class, n_epochs, validate, save_best_dev,
                   network_has_loss, batches_per_epoch, epochs_started, epoch,
                   step, self_mask, loss_func, best_accuracy, accuracy,
                   accuracies, best_result, saved_epoch, network_mode,
                   network_calls, call_count, last_call>>
    /\ UNCHANGED otherThanTrainVars

\* Line 100: data_forward up to the call of the network. SeqLabelTrainer
\* (lines 268-280) requires a tuple, unpacks it and sets self.mask; the other
\* trainers (lines 227-228, 344-347) pass the batch on.
TrainDataForward ==
    /\ train_pc = "data_forward"
    /\ Called("data_forward")
    /\ IF trainer_class = "SeqLabelTrainer"
       THEN IF ~IsTuple(batch_x)
            THEN /\ train_pc' = "RuntimeError"                      \* line 270
                 /\ UNCHANGED self_mask
            ELSE IF batch_x.arity < 2
                 THEN /\ train_pc' = "IndexError"                   \* line 272
                      /\ UNCHANGED self_mask
                 ELSE /\ self_mask' = seq_mask(batch_x.seq_len, batch_x.max_len)
                      /\ train_pc' = "network"
       ELSE /\ train_pc' = "network"
            /\ UNCHANGED self_mask
    /\ UNCHANGED <<trainer_class, n_epochs, validate, save_best_dev,
                   network_has_loss, batches_per_epoch, epochs_started, epoch,
                   step, batch_x, loss_func, best_accuracy, accuracy, accuracies,
                   best_result, saved_epoch, network_mode, network_calls>>
    /\ UNCHANGED otherThanTrainVars

\* Lines 282-283, 228, 346-347: the network is called and data_forward returns
TrainNetwork ==
    /\ train_pc = "network"
    /\ network_calls' = network_calls + 1
    /\ train_pc' = "get_loss"
    /\ UNCHANGED <<trainer_class, n_epochs, validate, save_best_dev,
                   network_has_loss, batches_per_epoch, epochs_started, epoch,
                   step, batch_x, self_mask, loss_func, best_accuracy, accuracy,
                   accuracies, best_result, saved_epoch, network_mode,
                   call_count, last_call>>
    /\ UNCHANGED otherThanTrainVars

\* Line 102: get_loss. SeqLabelTrainer (lines 285-296) asserts the shape of the
\* truth and calls self.model.loss; ClassificationTrainer inherits lines 175-187.
TrainGetLoss ==
    /\ train_pc = "get_loss"
    /\ Called("get_loss")
    /\ IF trainer_class = "SeqLabelTrainer"
       THEN /\ train_pc' = IF ~batch_x.truth_ok THEN "AssertionError"  \* line 293
                           ELSE IF ~network_has_loss THEN "AttributeError" \* line 295
                           ELSE "grad_backward"
            /\ UNCHANGED loss_func
       ELSE /\ loss_func' = IF loss_func # "None" THEN loss_func
                            ELSE IF network_has_loss THEN "model.loss"
                            ELSE "CrossEntropyLoss"
            /\ train_pc' = "grad_backward"
    /\ UNCHANGED <<trainer_class, n_epochs, validate, save_best_dev,
                   network_has_loss, batches_per_epoch, epochs_started, epoch,
                   step, batch_x, self_mask, best_accuracy, accuracy, accuracies,
                   best_result, saved_epoch, network_mode, network_calls>>
    /\ UNCHANGED otherThanTrainVars

\* Line 103
TrainGradBackward ==
    /\ train_pc = "grad_backward"
    /\ Called("grad_backward")
    /\ train_pc' = "update"
    /\ UNCHANGED <<trainer_class, n_epochs, validate, save_best_dev,
                   network_has_loss, batches_per_epoch, epochs_started, epoch,
                   step, batch_x, self_mask, loss_func, best_accuracy, accuracy,
                   accuracies, best_result, saved_epoch, network_mode,
                   network_calls>>
    /\ UNCHANGED otherThanTrainVars

\* Lines 104-111
TrainUpdate ==
    /\ train_pc = "update"
    /\ Called("update")
    /\ step' = step + 1
    /\ train_pc' = "batch"
    /\ UNCHANGED <<trainer_class, n_epochs, validate, save_best_dev,
                   network_has_loss, batches_per_epoch, epochs_started, epoch,
                   batch_x, self_mask, loss_func, best_accuracy, accuracy,
                   accuracies, best_result, saved_epoch, network_mode,
                   network_calls>>
    /\ UNCHANGED otherThanTrainVars

\* Line 114: the validator runs the network in test mode over the dev set and
\* keeps its metrics
TrainValidate ==
    /\ train_pc = "validator.test"
    /\ Called("validator.test")
    /\ network_mode' = ModeOf(TRUE)
    /\ accuracy' \in Accuracies
    /\ train_pc' = "best_eval_result"
    /\ UNCHANGED <<trainer_class, n_epochs, validate, save_best_dev,
                   network_has_loss, batches_per_epoch, epochs_started, epoch,
                   step, batch_x, self_mask, loss_func, best_accuracy,
                   accuracies, best_result, saved_epoch, network_calls>>
    /\ UNCHANGED otherThanTrainVars

\* Line 116: best_eval_result (lines 298-304, 366-372) is called only when
\* save_best_dev is set; lines 120-121 end the epoch
TrainBestEvalResult ==
    /\ train_pc = "best_eval_result"
    /\ IF save_best_dev
       THEN /\ Called("best_eval_result")
            /\ accuracies' = Append(accuracies, accuracy)
            /\ IF IsBetter(accuracy, best_accuracy)
               THEN /\ best_accuracy' = accuracy
                    /\ best_result' = "True"
                    /\ train_pc' = "save_model"
               ELSE /\ best_result' = "False"
                    /\ train_pc' = "epoch"
                    /\ UNCHANGED best_accuracy
       ELSE /\ train_pc' = "epoch"
            /\ UNCHANGED <<accuracies, best_accuracy, best_result, call_count,
                           last_call>>
    /\ UNCHANGED <<trainer_class, n_epochs, validate, save_best_dev,
                   network_has_loss, batches_per_epoch, epochs_started, epoch,
                   step, batch_x, self_mask, loss_func, accuracy, saved_epoch,
                   network_mode, network_calls>>
    /\ UNCHANGED otherThanTrainVars

\* Lines 117-121, 203-208
TrainSaveModel ==
    /\ train_pc = "save_model"
    /\ Called("save_model")
    /\ saved_epoch' = epoch
    /\ train_pc' = "epoch"
    /\ UNCHANGED <<trainer_class, n_epochs, validate, save_best_dev,
                   network_has_loss, batches_per_epoch, epochs_started, epoch,
                   step, batch_x, self_mask, loss_func, best_accuracy, accuracy,
                   accuracies, best_result, network_mode, network_calls>>
    /\ UNCHANGED otherThanTrainVars

\* No trainer is training
TrainIdle ==
    /\ trainer_class = "ToyTrainer"
    /\ n_epochs = 0
    /\ validate = FALSE
    /\ save_best_dev = FALSE
    /\ network_has_loss = FALSE
    /\ batches_per_epoch = 0
    /\ epochs_started = 0
    /\ epoch = 0
    /\ step = 0
    /\ batch_x = NoBatch
    /\ self_mask = None
    /\ loss_func = "None"
    /\ best_accuracy = 0
    /\ accuracy = 0
    /\ accuracies = <<>>
    /\ best_result = "none"
    /\ saved_epoch = 0
    /\ network_mode = "unset"
    /\ network_calls = 0
    /\ call_count = [m \in TrainerMethods |-> 0]
    /\ last_call = "none"
    /\ train_pc = "idle"

\* ------------------------------------------------------------------------
\* Tensor storage in ElmobiLm._lstm_forward and LstmCellWithProjection.forward
\* ------------------------------------------------------------------------
\* The storages of the caller: the packed inputs and the two tensors of a
\* supplied initial_state
CallerInputs == 1
CallerState == <<2, 3>>

\* No storage
NoStorage == 0

\* The locals that hold a tensor
StorageLocals == {"forward_output_sequence", "backward_output_sequence",
                  "forward_cache", "backward_cache", "forward_state_h",
                  "forward_state_c", "backward_state_h", "backward_state_c",
                  "inputs", "output_accumulator", "full_batch_previous_state",
                  "full_batch_previous_memory"}

\* A new tensor with the given content: the heap and the new storage
NewStorage(h, content) == [heap |-> Append(h, content), id |-> Len(h) + 1]

\* Lines 228-229 without the clone: the buffer stays the storage it was
ShareStorage(h, id) == [heap |-> h, id |-> id]

\* Lines 228-229: tensor.data.clone() is a new storage of the same content
CloneStorage(h, id) == NewStorage(h, h[id])

\* An in-place write (+=, tensor[a:b] = ...) into storage id
WriteStorage(h, id) == [h EXCEPT ![id] = @ + 1]

StorageInit ==
    /\ lstm_layers \in 1..MaxLayers
    /\ lstm_timesteps \in 0..MaxTime
    /\ state_supplied \in BOOLEAN
    /\ heap = IF state_supplied THEN <<0, 0, 0>> ELSE <<0>>
    /\ refs = [l \in StorageLocals |-> NoStorage]
    /\ cell_args = [inputs |-> NoStorage, state |-> None, contents |-> <<>>]
    /\ recorded = <<>>
    /\ storage_direction = "forward"
    /\ storage_layer_index = 0
    /\ storage_timestep = 0
    /\ storage_pc = "_lstm_forward"

\* Lines 353-367: pad_packed_sequence builds the padded inputs, and both
\* directions start from them
StorageLstmEnter ==
    /\ storage_pc = "_lstm_forward"
    /\ \E n \in {NewStorage(heap, 0)} :
          /\ heap' = n.heap
          /\ refs' = [refs EXCEPT !["forward_output_sequence"] = n.id,
                                  !["backward_output_sequence"] = n.id]
    /\ storage_pc' = "layer"
    /\ UNCHANGED <<lstm_layers, lstm_timesteps, state_supplied, cell_args,
                   recorded, storage_direction, storage_layer_index,
                   storage_timestep>>
    /\ UNCHANGED otherThanStorageVars

\* Lines 368-382: the caches are the sequences as they are, the states of the
\* two directions are views (split) of the caller's initial state
StorageLayerStart ==
    /\ storage_pc = "layer"
    /\ refs' = [refs EXCEPT
          !["forward_cache"] = refs["forward_output_sequence"],
          !["backward_cache"] = refs["backward_output_sequence"],
          !["forward_state_h"] = IF state_supplied THEN CallerState[1] ELSE NoStorage,
          !["forward_state_c"] = IF state_supplied THEN CallerState[2] ELSE NoStorage,
          !["backward_state_h"] = IF state_supplied THEN CallerState[1] ELSE NoStorage,
          !["backward_state_c"] = IF state_supplied THEN CallerState[2] ELSE NoStorage]
    /\ storage_direction' = "forward"
    /\ storage_pc' = "cell"
    /\ UNCHANGED <<heap, lstm_layers, lstm_timesteps, state_supplied, cell_args,
                   recorded, storage_layer_index, storage_timestep>>
    /\ UNCHANGED otherThanStorageVars

\* Lines 384-389, 127-149: the cell of the direction is called on the sequence
\* of its direction; output_accumulator is new, the state buffers are new zero
\* tensors or views (squeeze) of the initial state
StorageCellEnter ==
    /\ storage_pc = "cell"
    /\ LET d == storage_direction
           x == refs[IF d = "forward" THEN "forward_output_sequence"
                     ELSE "backward_output_sequence"]
           acc == NewStorage(heap, 0)
           st == NewStorage(acc.heap, 0)
           mem == NewStorage(st.heap, 0)
       IN /\ heap' = IF state_supplied THEN acc.heap ELSE mem.heap
          /\ refs' = [refs EXCEPT
                !["inputs"] = x,
                !["output_accumulator"] = acc.id,
                !["full_batch_previous_state"] =
                    IF state_supplied THEN CallerState[1] ELSE st.id,
                !["full_batch_previous_memory"] =
                    IF state_supplied THEN CallerState[2] ELSE mem.id]
          /\ cell_args' = [inputs |-> x,
                           state |-> IF state_supplied THEN CallerState ELSE None,
                           contents |-> IF state_supplied
                                        THEN <<heap[x], heap[CallerState[1]],
                                               heap[CallerState[2]]>>
                                        ELSE <<heap[x]>>]
    /\ storage_timestep' = 0
    /\ storage_pc' = "timestep"
    /\ UNCHANGED <<lstm_layers, lstm_timesteps, state_supplied, recorded,
                   storage_direction, storage_layer_index>>
    /\ UNCHANGED otherThanStorageVars

\* Lines 151-232: one timestep. The slices of lines 179-183 are clones and
\* views that are only read; lines 228-229 replace the two buffers by clones
\* and lines 230-232 write into them and into output_accumulator.
StorageCellTimestep ==
    /\ storage_pc = "timestep"
    /\ storage_timestep < lstm_timesteps
    /\ LET mem == CloneStorage(heap, refs["full_batch_previous_memory"])
           st == CloneStorage(mem.heap, refs["full_batch_previous_state"])
       IN /\ heap' = WriteStorage(WriteStorage(WriteStorage(st.heap, mem.id), st.id),
                                  refs["output_accumulator"])
          /\ refs' = [refs EXCEPT !["full_batch_previous_memory"] = mem.id,
                                  !["full_batch_previous_state"] = st.id]
    /\ storage_timestep' = storage_timestep + 1
    /\ UNCHANGED <<lstm_layers, lstm_timesteps, state_supplied, cell_args,
                   recorded, storage_direction, storage_layer_index, storage_pc>>
    /\ UNCHANGED otherThanStorageVars

\* Lines 234-240, 384-389: the cell returns output_accumulator and views
\* (unsqueeze) of the two buffers, which _lstm_forward binds to the sequence
\* and the state of the direction
StorageCellReturn ==
    /\ storage_pc = "timestep"
    /\ storage_timestep = lstm_timesteps
    /\ IF storage_direction = "forward"
       THEN /\ refs' = [refs EXCEPT
                  !["forward_output_sequence"] = refs["output_accumulator"],
                  !["forward_state_h"] = refs["full_batch_previous_state"],
                  !["forward_state_c"] = refs["full_batch_previous_memory"]]
            /\ storage_direction' = "backward"
            /\ storage_pc' = "cell"
       ELSE /\ refs' = [refs EXCEPT
                  !["backward_output_sequence"] = refs["output_accumulator"],
                  !["backward_state_h"] = refs["full_batch_previous_state"],
                  !["backward_state_c"] = refs["full_batch_previous_memory"]]
            /\ storage_pc' = "skip"
            /\ UNCHANGED storage_direction
    /\ UNCHANGED <<heap, lstm_layers, lstm_timesteps, state_supplied, cell_args,
                   recorded, storage_layer_index, storage_timestep>>
    /\ UNCHANGED otherThanStorageVars

\* Lines 390-400: above layer 0 the caches are added in place to the two
\* sequences; the concatenation of the sequences is recorded, and so is the
\* concatenation of the states
StorageSkipAndRecord ==
    /\ storage_pc = "skip"
    /\ LET added == IF storage_layer_index # 0
                    THEN WriteStorage(WriteStorage(heap,
                                                   refs["forward_output_sequence"]),
                                      refs["backward_output_sequence"])
                    ELSE heap
           out == NewStorage(added, 0)
           fin_h == NewStorage(out.heap, 0)
           fin_c == NewStorage(fin_h.heap, 0)
       IN /\ heap' = fin_c.heap
          /\ recorded' = Append(recorded, [id |-> out.id, content |-> 0])
    /\ storage_layer_index' = storage_layer_index + 1
    /\ storage_pc' = IF storage_layer_index + 1 < lstm_layers THEN "layer"
                     ELSE "return"
    /\ UNCHANGED <<lstm_layers, lstm_timesteps, state_supplied, refs, cell_args,
                   storage_direction, storage_timestep>>
    /\ UNCHANGED otherThanStorageVars

\* Lines 402-410: the recorded outputs and states are stacked into new tensors
StorageReturn ==
    /\ storage_pc = "return"
    /\ heap' = NewStorage(NewStorage(NewStorage(heap, 0).heap, 0).heap, 0).heap
    /\ storage_pc' = "done"
    /\ UNCHANGED <<lstm_layers, lstm_timesteps, state_supplied, refs, cell_args,
                   recorded, storage_direction, storage_layer_index,
                   storage_timestep>>
    /\ UNCHANGED otherThanStorageVars

\* No storage is followed
StorageIdle ==
    /\ heap = <<>>
    /\ lstm_layers = 0
    /\ lstm_timesteps = 0
    /\ state_supplied = FALSE
    /\ refs = [l \in StorageLocals |-> NoStorage]
    /\ cell_args = [inputs |-> NoStorage, state |-> None, contents |-> <<>>]
    /\ recorded = <<>>
    /\ storage_direction = "forward"
    /\ storage_layer_index = 0
    /\ storage_timestep = 0
    /\ storage_pc = "idle"

\* No encoder call is in progress
BiLmIdle ==
    /\ BiLmLocalsInit
    /\ bilm_entry = "none"
    /\ num_layers = 0
    /\ cell_clip = None
    /\ proj_clip = None
    /\ forward_weights = None
    /\ backward_weights = None
    /\ bilm_inputs = None
    /\ seq_len = None
    /\ packed = None
    /\ lstm_initial_state = None
    /\ bilm_pc = "idle"

\* No cell call is in progress outside the encoder's own
CellIdle ==
    /\ go_forward = TRUE
    /\ memory_cell_clip_value = None
    /\ state_projection_clip_value = None
    /\ recurrent_dropout_probability = 0
    /\ training = FALSE
    /\ weights = None
    /\ inputs = None
    /\ batch_size = 0
    /\ total_timesteps = 0
    /\ batch_lengths = None
    /\ initial_state = None
    /\ cell_pc = "idle"
    /\ timestep = 0
    /\ index = None
    /\ current_length_index = None
    /\ dropout_mask = None
    /\ full_batch_previous_state = None
    /\ full_batch_previous_memory = None
    /\ output_accumulator = None
    /\ memory = None
    /\ timestep_output = None
    /\ final_state = None
    /\ mask_calls = 0
    /\ mask_log = <<>>

vars == <<cellVars, bilmVars, loadVars, modelVars, forwardVars, charVars, cacheVars,
          trainVars, storageVars>>

InitCell == CellInit /\ BiLmIdle /\ LoadIdle /\ ModelIdle /\ ForwardIdle /\ CharsIdle /\ CacheIdle
    /\ TrainIdle /\ StorageIdle

CellNext == CellEnter \/ CellTimestep \/ CellReturn

SpecCell == InitCell /\ [][CellNext]_vars

BiLmNext ==
    \/ BiLmSortAndPack
    \/ LstmForwardEnter
    \/ LstmForwardLayer
    \/ LstmForwardReturn
    \/ BiLmUnsort

InitBiLm == BiLmInit /\ CellIdle /\ LoadIdle /\ ModelIdle /\ ForwardIdle /\ CharsIdle /\ CacheIdle
    /\ TrainIdle /\ StorageIdle

SpecBiLm == InitBiLm /\ [][BiLmNext]_vars

LoadNext == LoadWeightsOpen \/ LoadWeightsCell \/ LoadWeightsClose

InitLoad == LoadInit /\ CellIdle /\ BiLmIdle /\ ModelIdle /\ ForwardIdle /\ CharsIdle /\ CacheIdle
    /\ TrainIdle /\ StorageIdle

SpecLoad == InitLoad /\ [][LoadNext]_vars

ModelNext ==
    \/ ModelWalk
    \/ ModelReadConfig
    \/ ModelCharEmbedding
    \/ ModelTokenEmbedder
    \/ ConvLoadCnn
    \/ ConvStartHighway
    \/ ConvLoadHighway
    \/ ConvLoadProjection
    \/ ModelWordsToWords
    \/ ModelEncoder
    \/ ModelWeightFileMissing
    \/ LoadWeightsOpen
    \/ LoadWeightsCell
    \/ LoadWeightsClose
    \/ ModelCache

InitModel == ModelInit /\ CellIdle /\ BiLmIdle /\ LoadIdle /\ ForwardIdle /\ CharsIdle /\ CacheIdle
    /\ TrainIdle /\ StorageIdle

SpecModel == InitModel /\ [][ModelNext]_vars

ForwardNext ==
    \/ ForwardExpand
    \/ ForwardTokenEmbedding
    \/ ForwardEncoder
    \/ ForwardReturn
    \/ ForwardAgain

InitForward == ForwardInit /\ CellIdle /\ BiLmIdle /\ LoadIdle /\ ModelIdle /\ CharsIdle /\ CacheIdle
    /\ TrainIdle /\ StorageIdle

SpecForward == InitForward /\ [][ForwardNext]_vars

CharsNext ==
    \/ CharsBuildVocabulary
    \/ CharsCopyRow
    \/ CharsAllocateTable
    \/ CharsTableRow

InitChars == CharsInit /\ CellIdle /\ BiLmIdle /\ LoadIdle /\ ModelIdle /\ ForwardIdle /\ CacheIdle
    /\ TrainIdle /\ StorageIdle

SpecChars == InitChars /\ [][CharsNext]_vars

CacheNext == CacheStart \/ CacheBatch

InitCache ==
    CacheInit /\ CellIdle /\ BiLmIdle /\ LoadIdle /\ ModelIdle /\ ForwardIdle /\ CharsIdle
    /\ TrainIdle /\ StorageIdle

SpecCache == InitCache /\ [][CacheNext]_vars

TrainNext ==
    \/ TrainPrepare
    \/ TrainDefineOptimizer
    \/ TrainEpoch
    \/ TrainReturn
    \/ TrainNextBatch
    \/ TrainDataForward
    \/ TrainNetwork
    \/ TrainGetLoss
    \/ TrainGradBackward
    \/ TrainUpdate
    \/ TrainValidate
    \/ TrainBestEvalResult
    \/ TrainSaveModel

AllButTrainIdle ==
    CellIdle /\ BiLmIdle /\ LoadIdle /\ ModelIdle /\ ForwardIdle /\ CharsIdle /\ CacheIdle

InitTrain == TrainInit /\ AllButTrainIdle /\ StorageIdle

SpecTrain == InitTrain /\ [][TrainNext]_vars

StorageNext ==
    \/ StorageLstmEnter
    \/ StorageLayerStart
    \/ StorageCellEnter
    \/ StorageCellTimestep
    \/ StorageCellReturn
    \/ StorageSkipAndRecord
    \/ StorageReturn

InitStorage == StorageInit /\ AllButTrainIdle /\ TrainIdle

SpecStorage == InitStorage /\ [][StorageNext]_vars

\* ------------------------------------------------------------------------
\* Properties of LstmCellWithProjection.forward
\* ------------------------------------------------------------------------
Abs(x) == IF x < 0 THEN -x ELSE x

\* The rows the last iteration computed and wrote
ActiveRows == 0..current_length_index

Iterated == cell_pc \in {"loop", "done"} /\ timestep > 0

MaskInUse == recurrent_dropout_probability > 0 /\ training

\* The longest sequence spans the input and no sequence is empty
LengthsSpanInput ==
    /\ batch_lengths[0] = total_timesteps
    /\ \A i \in 0..batch_size-1 : batch_lengths[i] >= 1

\* C1: for both directions and every batch_lengths list sorted non-increasing
\* with entries in 0..T, the call returns, and the returned output_accumulator
\* is zero at [i, t] for every row i and every position t >= batch_lengths[i].
C1_ReturnsZeroBeyondLength ==
    /\ cell_pc # "IndexError"
    /\ cell_pc = "done" =>
          \A i \in 0..batch_size-1 : \A t \in 0..total_timesteps-1 :
             t >= batch_lengths[i] => output_accumulator[i][t] = 0

\* C2: at every timestep, in both directions, no row of length 0 lies inside
\* the active slice [0 .. current_length_index].
C2_ZeroLengthNeverActive ==
    Iterated => \A i \in ActiveRows : batch_lengths[i] # 0

\* C3 as stated: with a configured memory clip c and state-projection clip
\* c', after every timestep what was written into the memory buffer lies in
\* [-c, c] and what was written into the hidden-state buffer and into
\* output_accumulator lies in [-c', c'], for every clip value, dropout
\* probability and mode (stated here for the calls whose longest sequence
\* spans the input and whose sequences are all non-empty).
C3_ClippedForEveryConfiguration ==
    (Iterated /\ LengthsSpanInput) =>
       /\ memory_cell_clip_value # None =>
             \A i \in ActiveRows :
                Abs(full_batch_previous_memory[i]) <= Val(memory_cell_clip_value)
       /\ state_projection_clip_value # None =>
             \A i \in ActiveRows :
                /\ Abs(full_batch_previous_state[i])
                      <= Val(state_projection_clip_value)
                /\ Abs(output_accumulator[i][index])
                      <= Val(state_projection_clip_value)

\* C3 as amended: a non-zero memory clip c bounds what is written into the
\* memory buffer by [-c, c] in every mode; a non-zero state-projection clip
\* c' bounds what is written into the hidden-state buffer and into
\* output_accumulator by [-c', c'] whenever no dropout mask is applied.
C3_ClippedWhenNonZeroAndUnmasked ==
    Iterated =>
       /\ Truthy(memory_cell_clip_value) =>
             \A i \in ActiveRows :
                /\ Abs(memory[i]) <= Val(memory_cell_clip_value)
                /\ full_batch_previous_memory[i] = memory[i]
       /\ (Truthy(state_projection_clip_value) /\ dropout_mask = None) =>
             \A i \in ActiveRows :
                /\ Abs(timestep_output[i]) <= Val(state_projection_clip_value)
                /\ full_batch_previous_state[i] = timestep_output[i]
                /\ output_accumulator[i][index] = timestep_output[i]

\* Two iterations under both clips without a mask: a projected output of
\* magnitude 2 was clamped to the clip value 1.
C3_Witness ==
    /\ cell_pc = "done"
    /\ timestep = 2
    /\ Truthy(memory_cell_clip_value)
    /\ Truthy(state_projection_clip_value)
    /\ dropout_mask = None
    /\ Abs(weights.state_projection) = 2
    /\ memory[0] = Val(memory_cell_clip_value)
    /\ timestep_output[0] = -Val(state_projection_clip_value)

\* C4: the dropout mask is obtained exactly once per call, before the first
\* timestep, and that mask, row-sliced to the active sub-batch, multiplies the
\* projected output at every timestep; with probability 0 or outside training
\* no mask is obtained and no output is multiplied by one.
C4_OneMaskPerCall ==
    /\ mask_calls = IF cell_pc # "start" /\ MaskInUse THEN 1 ELSE 0
    /\ Len(mask_log) = timestep
    /\ ~MaskInUse =>
          /\ dropout_mask = None
          /\ \A k \in 1..Len(mask_log) : mask_log[k] = None
    /\ (MaskInUse /\ cell_pc # "start") =>
          /\ DOMAIN dropout_mask = 0..batch_size-1
          /\ \A k \in 1..Len(mask_log) :
                /\ mask_log[k] # None
                /\ \A i \in DOMAIN mask_log[k] : mask_log[k][i] = dropout_mask[i]
          /\ Iterated =>
                /\ DOMAIN mask_log[Len(mask_log)] = ActiveRows
                /\ \A i \in ActiveRows :
                      IF dropout_mask[i] = 0
                      THEN timestep_output[i] = 0
                      ELSE timestep_output[i] % dropout_mask[i] = 0

\* The same mask, with a dropped and a kept row, multiplied in at two
\* timesteps, the kept row's output being non-zero.
C4_Witness ==
    /\ cell_pc = "done"
    /\ Len(mask_log) = 2
    /\ batch_size = 2
    /\ dropout_mask # None
    /\ DOMAIN mask_log[1] = 0..1
    /\ DOMAIN mask_log[2] = 0..1
    /\ dropout_mask[0] = 0
    /\ dropout_mask[1] # 0
    /\ timestep_output[1] # 0

\* ------------------------------------------------------------------------
\* Properties of ElmobiLm
\* ------------------------------------------------------------------------
\* What the encoder computes for input row i when that row is a batch of its own
EncodingOfRow(i) ==
    LET x == [r \in 0..0 |-> [t \in 0..seq_len[i]-1 |-> bilm_inputs[i][t]]]
    IN LayersFrom(0, num_layers, forward_weights, backward_weights, cell_clip,
                  proj_clip, x, x, [r \in 0..0 |-> seq_len[i]], <<>>)

\* C5: forward restores the caller's batch order: the index applied after the
\* layers is the inverse of the sort permutation, and row i of every layer of
\* the returned tensor is the encoding of input row i (zero past its length).
C5_OrderRestored ==
    (bilm_pc = "done" /\ bilm_entry = "forward") =>
       \A i \in DOMAIN bilm_inputs : \A encoding \in { EncodingOfRow(i) } :
          /\ sort_idx[unsort_idx[i]] = i
          /\ sorted_inputs[unsort_idx[i]] = bilm_inputs[i]
          /\ \A k \in DOMAIN bilm_output :
                /\ bilm_output[k][i] = stacked_sequence_outputs[k][unsort_idx[i]]
                /\ \A t \in DOMAIN bilm_output[k][i] :
                      bilm_output[k][i][t] =
                         IF t < seq_len[i] THEN encoding[k + 1][0][t]
                         ELSE <<0, 0>>

\* A batch of three rows sorted by a permutation that is not its own inverse,
\* whose rows are encoded differently
C5_Witness ==
    /\ bilm_pc = "done"
    /\ bilm_entry = "forward"
    /\ Rows(bilm_inputs) = 3
    /\ sort_idx[sort_idx[0]] # 0
    /\ unsort_idx # sort_idx
    /\ bilm_output[0][0] # bilm_output[0][1]
    /\ bilm_output[0][1] # bilm_output[0][2]
    /\ bilm_output[0][0] # bilm_output[0][2]

\* One direction of a recorded layer output
Direction(t, d) == [i \in DOMAIN t |-> [p \in DOMAIN t[i] |-> t[i][p][d]]]

\* C6: layer 0 records for each direction the cell output alone; every layer
\* k >= 1 records the cell output plus that direction's input to layer k; the
\* recorded output of layer k is the input of layer k+1; the layer's result is
\* the two directions concatenated on the feature axis.
C6_SkipConnections ==
    /\ Len(layer_inputs) = Len(sequence_outputs)
    /\ Len(cell_outputs) = Len(sequence_outputs)
    /\ \A k \in 1..Len(sequence_outputs) :
          /\ layer_inputs[k] =
                IF k = 1 THEN <<padded_inputs, padded_inputs>>
                ELSE <<Direction(sequence_outputs[k-1], 1),
                       Direction(sequence_outputs[k-1], 2)>>
          /\ \A d \in 1..2 :
                Direction(sequence_outputs[k], d) =
                   IF k = 1 THEN cell_outputs[k][d]
                   ELSE AddTensors(cell_outputs[k][d], layer_inputs[k][d])

\* Two layers recorded, the second one's recorded forward output differing
\* from its cell's output by a non-zero input
C6_Witness ==
    /\ Len(sequence_outputs) = 2
    /\ \E i \in DOMAIN padded_inputs : \E p \in DOMAIN padded_inputs[i] :
          /\ layer_inputs[2][1][i][p] # 0
          /\ cell_outputs[2][1][i][p] # 0
          /\ sequence_outputs[2][i][p][1] # cell_outputs[2][1][i][p]
          /\ sequence_outputs[1][i][p][1] = cell_outputs[1][1][i][p]

SuppliedLayers == Rows(lstm_initial_state[1])

\* C7: _lstm_forward raises whenever an initial_state is supplied whose first
\* dimension differs from the number of layers, before any layer's cell is
\* run; with initial_state None or a matching layer count it does not raise.
C7_LayerCountChecked ==
    /\ bilm_pc = "Exception" =>
          /\ lstm_initial_state # None
          /\ SuppliedLayers # num_layers
          /\ cell_runs = 0
    /\ (lstm_initial_state # None /\ SuppliedLayers # num_layers) =>
          /\ bilm_pc \in {"_lstm_forward", "Exception"}
          /\ cell_runs = 0
    /\ (lstm_initial_state # None /\ SuppliedLayers = num_layers
          /\ bilm_pc = "done") => cell_runs = 2 * num_layers

\* The call raised on a supplied state with one layer too many
C7_Witness ==
    /\ bilm_pc = "Exception"
    /\ SuppliedLayers = num_layers + 1

\* A supplied state with the matching layer count was accepted
C7_WitnessAccepted ==
    /\ bilm_pc = "done"
    /\ lstm_initial_state # None
    /\ SuppliedLayers = num_layers

\* ------------------------------------------------------------------------
\* Properties of ElmobiLm.load_weights
\* ------------------------------------------------------------------------
\* The cell of layer i and direction j has been through lines 424-470
Loaded(i, j) ==
    \/ load_calls > 1
    \/ load_calls = 1 /\ (i < i_layer \/ (i = i_layer /\ j < j_direction))

LoadedCells == { k \in DOMAIN layers : Loaded(k[1], k[2]) }

\* The checkpoint gate row a runtime gate row comes from: blocks 1 and 2
\* exchanged, blocks 0 and 3 in place
CheckpointRow(r, cell_size) ==
    LET block == r \div cell_size
    IN (IF block = 1 THEN 2 ELSE IF block = 2 THEN 1 ELSE block) * cell_size
          + (r % cell_size)

\* C8: for every loaded layer and direction, with W_0 transposed and split
\* into its first input_size columns and the rest, each runtime gate matrix
\* has row-blocks 0 and 3 of the checkpoint in place, row-block 1 equal to
\* the checkpoint's block 2 and row-block 2 equal to the checkpoint's block 1.
C8_GateBlocksSwapped ==
    \A k \in LoadedCells :
       LET lstm == layers[k]
           W_0 == h5_rnn[<<k[2], k[1]>>].W_0
           gate_rows == 0..4*lstm.cell_size-1
       IN /\ DOMAIN lstm.input_linearity_weight = gate_rows
          /\ DOMAIN lstm.state_linearity_weight = gate_rows
          /\ \A r \in gate_rows :
                /\ DOMAIN lstm.input_linearity_weight[r] = 0..lstm.input_size-1
                /\ DOMAIN lstm.state_linearity_weight[r] =
                      0..NumRows(W_0)-lstm.input_size-1
                /\ \A c \in DOMAIN lstm.input_linearity_weight[r] :
                      lstm.input_linearity_weight[r][c] =
                         W_0[c][CheckpointRow(r, lstm.cell_size)]
                /\ \A c \in DOMAIN lstm.state_linearity_weight[r] :
                      lstm.state_linearity_weight[r][c] =
                         W_0[lstm.input_size + c][CheckpointRow(r, lstm.cell_size)]

\* Every cell of a two-layer encoder is loaded from a file whose blocks 1 and
\* 2 differ, and the loaded matrices differ from the constructed ones
C8_Witness ==
    /\ load_pc = "ready"
    /\ load_calls = 1
    /\ encoder.num_layers = 2
    /\ encoder.cell_size = 2
    /\ \A k \in DOMAIN layers :
          /\ Loaded(k[1], k[2])
          /\ h5_rnn[<<k[2], k[1]>>].W_0[0][2] # h5_rnn[<<k[2], k[1]>>].W_0[0][4]
          /\ layers[k].input_linearity_weight[2][0] = h5_rnn[<<k[2], k[1]>>].W_0[0][4]
          /\ layers[k].input_linearity_weight # NewLayers(encoder)[k].input_linearity_weight

\* C9: for every loaded layer and direction, the runtime bias has block 1
\* (read as the forget gate by the cell, lines 194-195) equal to the external
\* forget block (block 2 of B) plus 1, block 2 equal to the external
\* candidate block (block 1 of B) with nothing added, and blocks 0 and 3
\* equal to the external blocks 0 and 3; the 1 is added once per cell,
\* however many times load_weights has run.
C9_ForgetBiasPlusOne ==
    \A k \in LoadedCells :
       LET lstm == layers[k]
           B == h5_rnn[<<k[2], k[1]>>].B
       IN /\ DOMAIN lstm.state_linearity_bias = 0..4*lstm.cell_size-1
          /\ \A r \in DOMAIN lstm.state_linearity_bias :
                lstm.state_linearity_bias[r] =
                   B[CheckpointRow(r, lstm.cell_size)]
                      + (IF r \div lstm.cell_size = 1 THEN 1 ELSE 0)

\* load_weights has run twice over a two-layer encoder and the forget block
\* of the last cell holds the external value plus 1
C9_Witness ==
    /\ load_pc = "ready"
    /\ load_calls = 2
    /\ encoder.num_layers = 2
    /\ LET lstm == layers[<<1, 1>>]
           B == h5_rnn[<<1, 1>>].B
       IN /\ lstm.state_linearity_bias[lstm.cell_size] = B[2 * lstm.cell_size] + 1
          /\ lstm.state_linearity_bias[2 * lstm.cell_size] = B[lstm.cell_size]
          /\ B[2 * lstm.cell_size] # B[lstm.cell_size]

\* ------------------------------------------------------------------------
\* Properties of _ElmoModel.__init__
\* ------------------------------------------------------------------------
CellParameterNames ==
    {"input_linearity_weight", "state_linearity_weight", "state_linearity_bias",
     "state_projection_weight"}

\* Every parameter of the encoder's cells is frozen
CellsFrozen ==
    \A k \in DOMAIN layers : \A name \in CellParameterNames :
       ~layers[k].requires_grad[name]

\* C10: after construction completes, every parameter whose values were
\* copied from the checkpoint is non-trainable: the cells' gate, bias and
\* projection matrices, the convolution, highway and final projection weights
\* and biases, and the character-embedding table.
C10_LoadedParametersFrozen ==
    model_pc = "done" =>
       /\ CellsFrozen
       /\ \A p \in parameters : p.loaded => ~p.requires_grad

\* The same for every loaded parameter other than the character-embedding table
C10_LoadedFrozenButCharEmbedding ==
    model_pc = "done" =>
       /\ CellsFrozen
       /\ \A p \in parameters :
             (p.loaded /\ p.module # "char_emb_layer") => ~p.requires_grad

\* A model built with the convolutional token embedder and no cache
C10_Witness ==
    /\ model_pc = "done"
    /\ \E p \in parameters : p.module = "char_conv" /\ p.loaded
    /\ \E p \in parameters : p.module = "_highways" /\ p.loaded
    /\ \E p \in parameters : p.module = "_projection" /\ p.loaded
    /\ \E p \in parameters : p.module = "char_emb_layer" /\ p.loaded

\* The constructor is past the walk and the checks of lines 729-732
DiscoveryOver == model_pc \notin {"idle", "walk"}

\* C11: discovery fails exactly when the walk did not count one configuration
\* file and one weight file, it fails before any configuration is parsed or
\* any weight is read, and when it counted one of each, the two files it
\* found are the ones the constructor opens
C11_FoundFilesAreOpened ==
    /\ model_pc = "Exception" =>
           /\ config_count # 1 \/ weight_count # 1
           /\ parameters = {}
           /\ char_emb_layer = None
           /\ load_calls = 0
    /\ (DiscoveryOver /\ model_pc # "Exception") =>
           (config_count = 1 /\ weight_count = 1)
    /\ model_pc \notin {"FileNotFoundError", "OSError"}

\* Line 734 has returned: config holds the parsed configuration
Configured == model_pc \notin {"idle", "walk", "Exception", "FileNotFoundError"}

\* Lines 787-792, 817-822, 834-837: a name no branch of __init__ knows
UnknownName ==
    \/ Lower(config.token_embedder_name) \notin {"cnn", "lstm"}
    \/ Lower(config.encoder_name) \notin {"elmo", "lstm"}

\* C12: a configuration whose token embedder name is neither 'cnn' nor
\* 'lstm', or whose encoder name is neither 'elmo' nor 'lstm', never yields a
\* constructed model, whatever the character-embedding dimension
C12_UnknownNamesRejected ==
    (Configured /\ UnknownName) => model_pc # "done"

\* Every model SpecModel constructs is one of those forward is called on
ConstructedAsModelled ==
    model_pc = "done" =>
        /\ Constructible(config)
        /\ attributes = ConstructedAttributes(config, cache_word_reprs)

\* The number of non-padding tokens of row b of words
RowLength(b) == Cardinality({ t \in DOMAIN words[b] : words[b][t] # PadIndex })

\* C13: on a model with the 'elmo' encoder forward returns, for every batch, a
\* tensor of shape (n_layers+1, batch, max_len, 2*projection_dim) whose layer 0
\* is the token embedding repeated in both halves, also when every row of the
\* batch is shorter than max_len
C13_ElmoOutputShape ==
    /\ (elmo.encoder_name = "elmo" /\ MarkerIndices \subseteq elmo.attributes) =>
           forward_pc \notin {"AttributeError", "ValueError"}
    /\ forward_pc = "return" =>
           /\ Rows(encoder_output) = elmo.n_layers + 1
           /\ \A l \in DOMAIN encoder_output :
                 /\ Rows(encoder_output[l]) = Rows(words)
                 /\ \A b \in DOMAIN encoder_output[l] :
                       /\ Rows(encoder_output[l][b]) = Rows(words[0])
                       /\ \A t \in DOMAIN encoder_output[l][b] :
                             Rows(encoder_output[l][b][t]) = 2 * elmo.projection_dim
           /\ \A b \in DOMAIN words : \A t \in DOMAIN words[b] :
              \A k \in 0..elmo.projection_dim-1 :
                 LET embedding == Embed(expanded_words[b][t+1], elmo.projection_dim)
                 IN /\ encoder_output[0][b][t][k] = embedding[k]
                    /\ encoder_output[0][b][t][k + elmo.projection_dim] = embedding[k]

\* forward has returned for a batch of two or more rows, all shorter than max_len
C13_Witness ==
    /\ forward_pc = "return"
    /\ Rows(words) >= 2
    /\ \A b \in DOMAIN words : RowLength(b) < Rows(words[b])
    /\ \E b \in DOMAIN words : RowLength(b) > 0

\* C14: in what forward returns, positions 0..L-1 of the encoder layers of a
\* row with L tokens hold the states computed for those tokens, and the states
\* computed for the begin and the end marker are at no position
C14_MarkersStripped ==
    forward_pc = "return" =>
        \A l \in DOMAIN encoder_output \ {0}, b \in DOMAIN words :
            LET hidden_size == 2 * elmo.projection_dim
            IN /\ \A t \in 0..RowLength(b)-1 :
                     encoder_output[l][b][t] = Hidden(l, t + 1, words[b][t], hidden_size)
               /\ \A t \in DOMAIN encoder_output[l][b] :
                     /\ encoder_output[l][b][t] # Hidden(l, 0, BosIndex, hidden_size)
                     /\ encoder_output[l][b][t] #
                           Hidden(l, RowLength(b) + 1, EosIndex, hidden_size)

\* C15: with the encoder name 'lstm' construction completes: once the plain
\* bidirectional LSTM encoder is instantiated, __init__ loads its values and
\* does not raise
C15_LstmEncoderConstructs ==
    (Configured /\ Lower(config.encoder_name) = "lstm" /\ "encoder" \in attributes) =>
        model_pc # "AttributeError"

\* The attributes that can embed tokens
TokenPaths == {"cached_word_embedding", "token_embedder"}

\* C18: a constructed model has exactly one of the cached table and the token
\* embedder, the cached table exactly when it no longer has the
\* word-to-character table, and every forward call embeds its tokens with the
\* one it has
C18_OneTokenPathUsed ==
    /\ Cardinality(TokenPaths \cap elmo.attributes) = 1
    /\ "cached_word_embedding" \in elmo.attributes =>
           "words_to_chars_embedding" \notin elmo.attributes
    /\ forward_pc \in {"return", "AttributeError", "ValueError"} =>
           token_path \in elmo.attributes

\* C16: every row of the word-to-character table but the padding entry's has
\* max_chars entries: the begin-of-word id, the ids of the word's characters
\* cut to max_chars - 2 (for a marker row the one id of the marker), the
\* end-of-word id, then pad ids; for every max_chars with room for the three
\* entries of a marker row
C16_TableRows ==
    (chars_pc = "done" /\ max_chars >= 3) =>
        \A row \in 1..Len(word_list)+1 :
            LET word == (word_list \o <<BOS_TAG, EOS_TAG>>)[row + 1]
                inner == IF row >= Len(word_list)
                         THEN <<to_index(char_vocab, word)>>
                         ELSE [i \in 1..Min(Len(word), max_chars - 2) |->
                                  to_index(char_vocab, <<word[i]>>)]
                filled == <<to_index(char_vocab, BOW_TAG)>> \o inner
                          \o <<to_index(char_vocab, EOW_TAG)>>
            IN /\ Len(words_to_chars_embedding[row]) = max_chars
               /\ Len(filled) <= max_chars
               /\ \A k \in 1..max_chars :
                     words_to_chars_embedding[row][k] =
                        IF k <= Len(filled) THEN filled[k]
                                            ELSE to_index(char_vocab, PAD_TAG)

\* The characters of the runtime vocabulary the copy loop has been through
Copied == IF chars_pc = "copy" THEN 1..chars_index ELSE 1..Len(char_vocab)

\* C19: the row written for a character of the runtime vocabulary is the
\* checkpoint's row at the lexicon's index of the character or, if the lexicon
\* does not list it, at the lexicon's index of the unknown character; the found
\* count is the number of characters the lexicon lists, and found and
\* defaulted add up to the size of the runtime vocabulary
C19_CharacterRowsCopied ==
    chars_pc \in {"copy", "table", "done", "RuntimeError"} =>
        LET found == { i \in Copied : char_vocab[i] \in DOMAIN char_dic }
            defaulted == { i \in Copied :
                             /\ char_vocab[i] \notin DOMAIN char_dic
                             /\ char_emb_weight[i-1] = Float(char_dic[OOV_TAG]) }
        IN /\ \A i \in found : char_emb_weight[i-1] = Float(char_dic[char_vocab[i]])
           /\ found_char_count = Cardinality(found)
           /\ Cardinality(found) + Cardinality(defaulted) = Cardinality(Copied)

\* The loop is over, having found a character beside the reserved ones and
\* defaulted another
C19_Witness ==
    /\ chars_pc = "table"
    /\ found_char_count > 4
    /\ \E i \in 1..Len(char_vocab) :
          /\ char_vocab[i] \notin DOMAIN char_dic
          /\ char_emb_weight[i-1] = Float(char_dic[OOV_TAG])
    /\ \E i \in 1..Len(char_vocab) : char_vocab[i] = <<"a">> /\ <<"a">> \in DOMAIN char_dic

\* C17: the batches of the precomputation are in range and disjoint, and
\* together they write the row of every index 0..word_size-1, exactly once
\* each, whether or not word_size is a multiple of the batch size
C17_EveryRowCachedOnce ==
    cache_pc \in {"batches", "done"} =>
        /\ DOMAIN cached_rows = 0..word_size-1
        /\ \A row \in DOMAIN cached_rows :
              cached_rows[row] = IF row < cache_i * cache_batch_size THEN 1 ELSE 0
        /\ cache_pc = "done" => \A row \in 0..word_size-1 : cached_rows[row] = 1

\* The precomputation is over, after a last batch that was not full
C17_Witness ==
    /\ cache_pc = "done"
    /\ num_batches >= 2
    /\ word_size % cache_batch_size # 0
    /\ cached_rows[word_size - 1] = 1

\* C20: the table attached to the token embedder maps every word that creates
\* no entry to the unknown index and every other index to itself, and the
\* token embedder embeds every word under the index the table gives for it
C20_NoCreateWordsRedirected ==
    elmo.words_to_words # None =>
        /\ \A idx \in 0..BosIndex+1 :
              elmo.words_to_words[idx] = IF idx = MaxTime THEN UnknownIndex ELSE idx
        /\ forward_pc \in {"encoder", "strip", "return"} =>
              \A b \in DOMAIN expanded_words : \A t \in DOMAIN expanded_words[b] :
                  token_embedding[b][t] =
                     Embed(elmo.words_to_words[expanded_words[b][t]],
                           elmo.projection_dim)

\* The rows whose length exceeds position p
RowsLongerThan(p) == { i \in 0..batch_size-1 : batch_lengths[i] > p }

\* C22: in the forward direction, on a batch sorted longest first with every
\* length >= 1 and as many timesteps as the longest length, every iteration
\* visits position t = timestep, leaves the active slice
\* [0 .. current_length_index] equal to the set of rows longer than t, never
\* raises the pointer and never takes it below 0.
C22_ForwardActiveSlice ==
    [][(go_forward /\ LengthsSpanInput /\ cell_pc = "loop"
        /\ timestep < total_timesteps)
       => /\ cell_pc' = "loop"
          /\ index' = timestep
          /\ 0..current_length_index' = RowsLongerThan(index')
          /\ current_length_index' <= current_length_index
          /\ current_length_index' >= 0]_vars

\* A forward call has returned on a batch whose second row is shorter than the
\* first: the pointer has moved from row 1 to row 0
C22_Witness ==
    /\ go_forward /\ LengthsSpanInput /\ cell_pc = "done"
    /\ batch_size = 2 /\ batch_lengths[0] = 2 /\ batch_lengths[1] = 1
    /\ current_length_index = 0

\* C23: in the backward direction, on a batch sorted longest first with every
\* length >= 1 and T timesteps, T the longest length, iteration t visits
\* position T-1-t (so the positions run from T-1 down to 0), leaves the active
\* slice [0 .. current_length_index] equal to the set of rows longer than that
\* position, never lowers the pointer and never takes it above batch_size-1.
C23_BackwardActiveSlice ==
    [][(~go_forward /\ LengthsSpanInput /\ cell_pc = "loop"
        /\ timestep < total_timesteps)
       => /\ cell_pc' = "loop"
          /\ index' = total_timesteps - 1 - timestep
          /\ 0..current_length_index' = RowsLongerThan(index')
          /\ current_length_index' >= current_length_index
          /\ current_length_index' <= batch_size - 1]_vars

\* A backward call has returned on a batch whose second row is shorter than
\* the first: the pointer has moved from row 0 to row 1
C23_Witness ==
    /\ ~go_forward /\ LengthsSpanInput /\ cell_pc = "done"
    /\ batch_size = 2 /\ batch_lengths[0] = 2 /\ batch_lengths[1] = 1
    /\ current_length_index = 1 /\ index = 0

\* Row i of the call taken alone: a batch of one row, as many timesteps as the
\* row is long, the row's own initial state and the row's own mask entry
RowAlone(i) ==
    LET len == batch_lengths[i]
        x == [j \in {0} |-> [t \in 0..len-1 |-> inputs[i][t]]]
        init == IF initial_state = None THEN None
                ELSE <<[j \in {0} |-> initial_state[1][i]],
                       [j \in {0} |-> initial_state[2][i]]>>
        mask == IF dropout_mask = None THEN None
                ELSE [j \in {0} |-> dropout_mask[i]]
    IN RunCell(go_forward, weights, memory_cell_clip_value,
               state_projection_clip_value, mask, x, [j \in {0} |-> len], 1, len,
               init)

\* Every iteration leaves the rows outside the active slice as they were
RowsOutsideSliceKept ==
    [][(cell_pc = "loop" /\ cell_pc' = "loop" /\ timestep' = timestep + 1)
       => \A i \in (0..batch_size-1) \ (0..current_length_index') :
             /\ full_batch_previous_state'[i] = full_batch_previous_state[i]
             /\ full_batch_previous_memory'[i] = full_batch_previous_memory[i]]_vars

\* C24: rows outside the active slice keep their state, so the returned final
\* state of every row is the one its own recurrence yields: run over the
\* row's valid positions only (first to last in the forward direction, last
\* valid position down to 0 in the backward direction) from the row's own
\* initial state; in the forward direction a row of length 0 keeps its initial
\* state (the backward clause speaks of a last valid position, so it is stated
\* for the rows of length >= 1).
C24_FinalStateOfOwnRecurrence ==
    cell_pc = "done"
    => \A i \in 0..batch_size-1 :
          (go_forward \/ batch_lengths[i] >= 1)
          => \E r \in {RowAlone(i)} :
                /\ final_state[1][i] = r.state[0]
                /\ final_state[2][i] = r.memory[0]

\* C24 restricted to the calls whose longest row spans the input
FinalStateWhenLengthsSpanInput ==
    batch_lengths[0] = total_timesteps => C24_FinalStateOfOwnRecurrence

\* The number of ids of row b of words other than the padding index
NonPadding(b) == Cardinality({ t \in DOMAIN words[b] : words[b][t] # PadIndex })

\* C26: once forward has built the marker-extended batch, every row b of
\* words, its L non-padding ids at positions 0..L-1 and padding after them
\* (0 <= L <= max_len), has an extended row of length max_len+2 with the
\* begin marker at position 0, the ids at positions 1..L, the end marker at
\* position L+1 and the padding index at every later position, and the length
\* kept for the encoder is L+2.
C26_MarkersAroundEachRow ==
    (forward_pc \notin {"call", "AttributeError"})
    => \A b \in DOMAIN words :
          LET max_len == Rows(words[b])
              L == NonPadding(b)
          IN (\A t \in DOMAIN words[b] : (words[b][t] # PadIndex) <=> (t < L))
             => /\ DOMAIN expanded_words[b] = 0..max_len+1
                /\ expanded_words[b][0] = BosIndex
                /\ \A t \in 1..L : expanded_words[b][t] = words[b][t-1]
                /\ expanded_words[b][L+1] = EosIndex
                /\ \A t \in L+2..max_len+1 : expanded_words[b][t] = PadIndex
                /\ forward_seq_len[b] = L + 2

\* The encoder has been called on a batch with an all-padding row and a row
\* without padding
C26_Witness ==
    /\ forward_pc = "strip"
    /\ Rows(words) = 2 /\ Rows(words[0]) = 2
    /\ NonPadding(0) = 0 /\ NonPadding(1) = 2
    /\ expanded_words[0][1] = EosIndex /\ expanded_words[0][3] = PadIndex
    /\ expanded_words[1][3] = EosIndex /\ forward_seq_len[1] = 4

\* C30: on a model that __init__ returned, whose encoder name was matched
\* ignoring letter case (lines 834-837), no forward call raises the
\* unknown-encoder error of line 902, and the branch of lines 889-900 that
\* forward runs is the one of the variant __init__ instantiated.
C30_ConstructedEncoderAccepted ==
    /\ forward_pc # "ValueError"
    /\ forward_pc = "strip" => Lower(elmo.encoder_name) = "elmo"

\* ------------------------------------------------------------------------
\* Properties of the trainers
\* ------------------------------------------------------------------------
\* C21: SeqLabelTrainer.data_forward raises RuntimeError whenever its inputs
\* are not a tuple, without calling the network and without changing
\* self.mask; for a tuple it does not raise RuntimeError, and when it goes on
\* to call the network self.mask is, before that call, the mask of that
\* batch's lengths.
C21_TupleRequired ==
    /\ [][(trainer_class = "SeqLabelTrainer" /\ train_pc = "data_forward")
          => /\ network_calls' = network_calls
             /\ IF batch_x.arity = 0
                THEN train_pc' = "RuntimeError" /\ self_mask' = self_mask
                ELSE /\ train_pc' # "RuntimeError"
                     /\ train_pc' = "network"
                        => self_mask' = seq_mask(batch_x.seq_len, batch_x.max_len)]_vars
    /\ []((trainer_class = "SeqLabelTrainer" /\ train_pc = "network")
          => /\ batch_x.arity > 0
             /\ self_mask = seq_mask(batch_x.seq_len, batch_x.max_len))

\* A second batch that is not a tuple has raised RuntimeError: the network was
\* called for the first batch only and self.mask is still the first batch's
C21_Witness ==
    /\ trainer_class = "SeqLabelTrainer"
    /\ train_pc = "RuntimeError"
    /\ network_calls = 1
    /\ self_mask = seq_mask(<<2, 1>>, 2)

\* ------------------------------------------------------------------------
\* Properties of the tensor storages
\* ------------------------------------------------------------------------
\* C25: no call of the cell's forward writes into its caller's tensors: from
\* entry on, for every number of timesteps, the storage of its inputs and the
\* storages of a supplied initial_state hold the content they had on entry;
\* and _lstm_forward, its in-place skip additions included, writes neither
\* into its caller's inputs and initial state nor into an output it has
\* recorded.
C25_CallerDataUnchanged ==
    /\ storage_pc # "idle" => heap[CallerInputs] = 0
    /\ state_supplied => heap[CallerState[1]] = 0 /\ heap[CallerState[2]] = 0
    /\ cell_args.inputs # NoStorage
       => /\ heap[cell_args.inputs] = cell_args.contents[1]
          /\ cell_args.state # None
             => /\ heap[cell_args.state[1]] = cell_args.contents[2]
                /\ heap[cell_args.state[2]] = cell_args.contents[3]
    /\ \A k \in DOMAIN recorded : heap[recorded[k].id] = recorded[k].content

\* _lstm_forward has returned from two layers of cells that ran over at least
\* one timestep from a supplied initial state: the buffers were written, the
\* skip addition was made, and the output of layer 0 was recorded before it
C25_Witness ==
    /\ storage_pc = "done"
    /\ state_supplied /\ lstm_timesteps >= 1 /\ lstm_layers >= 2
    /\ Len(recorded) = lstm_layers
    /\ heap[refs["forward_output_sequence"]] = lstm_timesteps + 1

\* The step calls method m
Calls(m) == call_count'[m] = call_count[m] + 1

\* The positions of train inside the batch loop of an epoch
InBatchLoop ==
    train_pc \in {"batch", "data_forward", "network", "get_loss", "grad_backward",
                  "update"}

\* C27: train, when it returns, has run exactly n_epochs epochs;
\* define_optimizer is called exactly once, before any batch; every epoch
\* switches the network to training mode before its batches, also when the
\* previous epoch ended with a validation run; and the calls of a batch come
\* in the order data_forward, get_loss, grad_backward, update, a batch's
\* data_forward coming only after the previous batch's update.
C27_EpochsAndCallOrder ==
    /\ [](/\ epochs_started <= n_epochs /\ epoch = epochs_started
          /\ call_count["mode"] = epochs_started
          /\ train_pc = "done" => epochs_started = n_epochs
          /\ call_count["define_optimizer"] <= 1
          /\ (train_pc = "done" \/ call_count["data_forward"] > 0 \/ epochs_started > 0)
             => call_count["define_optimizer"] = 1
          /\ InBatchLoop => network_mode = "train"
          /\ call_count["update"] <= call_count["grad_backward"]
          /\ call_count["grad_backward"] <= call_count["get_loss"]
          /\ call_count["get_loss"] <= call_count["data_forward"]
          /\ call_count["data_forward"] <= call_count["update"] + 1)
    /\ [][/\ Calls("data_forward")
             => /\ last_call = (IF step = 0 THEN "mode" ELSE "update")
                /\ call_count["update"] = call_count["data_forward"]
          /\ Calls("get_loss") => last_call = "data_forward"
          /\ Calls("grad_backward") => last_call = "get_loss"
          /\ Calls("update") => last_call = "grad_backward"
          /\ Calls("mode")
             => last_call \in {"define_optimizer", "mode", "update",
                               "validator.test", "best_eval_result", "save_model"}]_vars

\* train has returned after two epochs of two batches, each epoch validated
C27_Witness ==
    /\ train_pc = "done"
    /\ n_epochs = 2 /\ validate /\ batches_per_epoch = 2
    /\ call_count["update"] = 4
    /\ call_count["validator.test"] = 2
    /\ call_count["mode"] = 2

\* The batches of the epochs started so far are all done
BatchesDone == call_count["update"] = epochs_started * batches_per_epoch

\* C28: with validate set, the validator runs once per epoch, after all the
\* batches of the epoch and before the first batch of the next; save_model is
\* called in an epoch exactly when save_best_dev is set and best_eval_result
\* returned True for the validation of that epoch, and after that validation;
\* with validate unset there is never a validation run nor a save.
C28_ValidationAndSave ==
    /\ [](/\ ~validate
             => /\ call_count["validator.test"] = 0
                /\ call_count["save_model"] = 0 /\ saved_epoch = 0
          /\ (validate /\ InBatchLoop)
             => call_count["validator.test"] = epochs_started - 1
          /\ (validate /\ train_pc \in {"epoch", "done"})
             => /\ call_count["validator.test"] = epochs_started
                /\ epochs_started > 0
                   => ((saved_epoch = epoch) <=> (save_best_dev /\ best_result = "True"))
          /\ ~save_best_dev => call_count["save_model"] = 0)
    /\ [][/\ Calls("validator.test") => (validate /\ BatchesDone /\ step = batches_per_epoch)
          /\ Calls("data_forward")
             => (validate => call_count["validator.test"] = epochs_started - 1)
          /\ Calls("save_model")
             => /\ save_best_dev /\ validate
                /\ last_call = "best_eval_result" /\ best_result = "True"
                /\ call_count["validator.test"] = epochs_started
                /\ saved_epoch' = epoch]_vars

\* Two validated epochs have ended, the first with a save and the second
\* without one
C28_Witness ==
    /\ train_pc = "done"
    /\ validate /\ save_best_dev /\ n_epochs = 2 /\ batches_per_epoch >= 1
    /\ call_count["validator.test"] = 2
    /\ call_count["save_model"] = 1
    /\ saved_epoch = 1 /\ best_result = "False"

\* The highest of the accuracies best_eval_result was called with so far
HighestSoFar == MaxOf(accuracies)

\* The earliest call of best_eval_result with accuracy a
EarliestWith(a) ==
    CHOOSE e \in DOMAIN accuracies :
       /\ accuracies[e] = a
       /\ \A d \in DOMAIN accuracies : accuracies[d] = a => e <= d

\* An epoch of a run with validate and save_best_dev set has ended
BestDevEpochEnded ==
    /\ validate /\ save_best_dev
    /\ train_pc \in {"epoch", "done"} /\ epochs_started > 0

\* best_accuracy is the maximum of 0 and the accuracies seen
BestAccuracyIsMaximum ==
    /\ best_accuracy >= 0
    /\ \A e \in DOMAIN accuracies : accuracies[e] <= best_accuracy
    /\ best_accuracy = 0 \/ \E e \in DOMAIN accuracies : accuracies[e] = best_accuracy

\* best_eval_result returns True exactly for an accuracy above 0 and above
\* every accuracy of an earlier call, and best_accuracy never decreases
BestEvalResultStrict ==
    /\ best_accuracy' >= best_accuracy
    /\ Calls("best_eval_result")
       => /\ accuracies' = Append(accuracies, accuracy)
          /\ (best_result' = "True")
             <=> (accuracy > 0 /\ \A e \in DOMAIN accuracies : accuracy > accuracies[e])

\* C29 as stated: best_eval_result returns True exactly for an accuracy
\* strictly above 0 and above every earlier one, best_accuracy never decreases
\* and is the maximum of 0 and the accuracies seen, and so, in a run with
\* validate and save_best_dev set, after every epoch the last saved model is
\* the one of the earliest epoch that attained the highest accuracy so far.
C29_LastSavedIsEarliestBest ==
    /\ [](/\ BestAccuracyIsMaximum
          /\ BestDevEpochEnded
             => /\ Len(accuracies) = epochs_started
                /\ saved_epoch = EarliestWith(HighestSoFar))
    /\ [][BestEvalResultStrict]_vars

\* C29, amended: the same, but the last saved model is the one of the earliest
\* epoch that attained the highest accuracy so far only when that accuracy is
\* above 0; as long as no accuracy exceeded 0, no model has been saved.
C29_LastSavedIsEarliestBestAboveZero ==
    /\ [](/\ BestAccuracyIsMaximum
          /\ BestDevEpochEnded
             => /\ Len(accuracies) = epochs_started
                /\ IF HighestSoFar > 0
                   THEN saved_epoch = EarliestWith(HighestSoFar)
                   ELSE saved_epoch = 0 /\ call_count["save_model"] = 0)
    /\ [][BestEvalResultStrict]_vars

\* The second epoch has repeated the accuracy of the first: the saved model is
\* still the first epoch's
C29_Witness ==
    /\ train_pc = "done"
    /\ validate /\ save_best_dev
    /\ accuracies = <<1, 1>>
    /\ best_accuracy = 1
    /\ saved_epoch = 1 /\ call_count["save_model"] = 1

====
